---------------------------- MODULE Spec2Model ----------------------------
(***************************************************************************)
(* Competitor-positioning and scoring pipeline of the authority-index      *)
(* service (competitor-analyzer module, content-fetcher helpers).          *)
(*                                                                         *)
(* Conventions                                                             *)
(*   - A JavaScript `undefined` field is the integer Undefined (-1); the   *)
(*     truthiness test `v || d` is OrDefault(v, d), so that a missing      *)
(*     score and a score of 0 both take the default, as in the source.     *)
(*     A NaN that arithmetic on an absent score yields is held as          *)
(*     Undefined as well.                                                  *)
(*   - Scores are integer points 0..100 everywhere except inside the       *)
(*     layout engine, whose dispersion pre-pass produces fractions: there  *)
(*     scores are held in thousandths of a point (ScoreScale) and pixel    *)
(*     coordinates in hundredths of a pixel (PixelScale).                  *)
(*   - Math.random() is a nondeterministic choice over a small set of      *)
(*     outcomes that covers the extremes of each draw.                     *)
(***************************************************************************)
EXTENDS Integers, Sequences, FiniteSets, TLC

VARIABLES
    pc,                 \* position of the call being modelled
    industry,           \* the industry argument
    \* --- score curving / market position classifier ---
    expertiseScore,     \* argument of determineMarketPosition
    authorityScore,     \* argument of determineMarketPosition
    peers,              \* the `competitors` argument of determineMarketPosition
    expertiseThreshold, \* threshold finally compared against
    authorityThreshold, \* threshold finally compared against
    curvedExpertise,    \* applyCurve(expertiseScore)
    curvedAuthority,    \* applyCurve(authorityScore)
    position,           \* the label returned
    \* --- simulated competitor generator ---
    userData,           \* the subject record
    specialty,          \* the specialty argument
    count,              \* the count argument
    simulatedCompetitors, \* the list returned
    outcome,            \* "" while running, then "returned" or "threw"
    \* --- quadrant layout engine ---
    competitorList,     \* the competitor list the call is given
    chartDimensions,    \* the canvas
    positionedCompetitors, \* the list returned, each with its chartPosition
    searches,           \* per entity, the attempts and isOverlapping at loop exit
    \* --- insights, enhancement and the competitor pipeline ---
    insights,           \* the list generateCompetitiveInsights returns
    enhancedCompetitors, \* processCompetitors: the list built so far
    settled,            \* how each enhanceCompetitorData call settled
    subjectDomain,      \* the domain argument of findAndAnalyzeCompetitors
    findOutcome,        \* "" while running, then "resolved" or "rejected"
    \* --- credibility weights (analysis-engine.js) ---
    analysisData,       \* the analysis argument of calculateCredibilityScore
    weights,            \* analyzeAuthorityIndex: getIndustryWeights(industry)
    credibilityWeights, \* calculateCredibilityScore: const weights
    adjustedWeights,    \* calculateCredibilityScore: after the adaptive step
    finalScore,         \* calculateCredibilityScore: the value returned
    \* --- getWebsiteContent (content-fetcher.js) ---
    fetchUrl,           \* the url parameter (reassigned when it has no protocol)
    retries,            \* let retries
    fetchLog,           \* what each fetchClient.get so far did
    waitTimes,          \* the setTimeout delays awaited so far
    fetchResult,        \* how the promise settled, and with what
    \* --- analyzeContent (analysis-engine.js, AI Analysis Module) ---
    OPENAI_API_KEY,     \* the module's key: "" until init sets one
    contentSample,      \* contentSample.length of the content argument
    aiRetries,          \* let retries of analyzeContent
    aiRequests,         \* what each axios.post so far was answered with
    aiWaits,            \* the setTimeout delays awaited so far
    aiResult            \* how the promise settled, and with what

classVars == <<expertiseScore, authorityScore, peers, expertiseThreshold,
               authorityThreshold, curvedExpertise, curvedAuthority, position>>

genVars == <<userData, specialty, count, simulatedCompetitors, outcome>>

layoutVars == <<competitorList, chartDimensions, positionedCompetitors, searches>>

pipelineVars == <<insights, enhancedCompetitors, settled, subjectDomain,
                  findOutcome>>

engineVars == <<analysisData, weights, credibilityWeights, adjustedWeights,
                finalScore>>

fetcherVars == <<fetchUrl, retries, fetchLog, waitTimes, fetchResult>>

analyzerVars == <<OPENAI_API_KEY, contentSample, aiRetries, aiRequests, aiWaits,
                  aiResult>>

vars == <<pc, industry, classVars, genVars, layoutVars, pipelineVars,
          engineVars, fetcherVars, analyzerVars>>

-----------------------------------------------------------------------------
(* JavaScript values *)

\* the JavaScript value undefined
Undefined == 0 - 1

Truthy(v) == v # Undefined /\ v # 0

OrDefault(v, d) == IF Truthy(v) THEN v ELSE d

Max(a, b) == IF a >= b THEN a ELSE b

Min(a, b) == IF a <= b THEN a ELSE b

\* floor(n / d) for d > 0 and any integer n
FloorDiv(n, d) == n \div d

\* Math.round(n / d) for d > 0: round half up
RoundDiv(n, d) == (2 * n + d) \div (2 * d)

-----------------------------------------------------------------------------
(* 4.1 Score curving *)

\* applyCurve on a score in points.  normalized = score/100; the three bands
\* are taken in hundredths, and Math.round(curved*100) is round-half-up of
\* the exact product (the doubles agree with it on every integer 0..100).
\* The three bands without the final Math.max(0, Math.min(100, ...)).
applyCurveUnclamped(score) ==
    IF score < 40
      THEN RoundDiv(score * 90, 100)
      ELSE IF score > 70
             THEN RoundDiv(7000 + (score - 70) * 115, 100)
             ELSE RoundDiv(3000 + (score - 40) * 130, 100)

applyCurve(score) ==
    LET curved100 ==
            IF score < 40
              THEN RoundDiv(score * 90, 100)
              ELSE IF score > 70
                     THEN RoundDiv(7000 + (score - 70) * 115, 100)
                     ELSE RoundDiv(3000 + (score - 40) * 130, 100)
    IN  Max(0, Min(100, curved100))

-----------------------------------------------------------------------------
(* 4.2 Market position classifier *)

VERIFIED_EXPERT == "VERIFIED EXPERT"
HIDDEN_EXPERT == "HIDDEN EXPERT"
VISIBILITY_WITHOUT_SUBSTANCE == "VISIBILITY WITHOUT SUBSTANCE"
LOW_PROFILE == "LOW PROFILE"

Labels == {VERIFIED_EXPERT, HIDDEN_EXPERT, VISIBILITY_WITHOUT_SUBSTANCE, LOW_PROFILE}

industryAdjustments ==
    [Healthcare    |-> [expertise |-> 5,  authority |-> 0],
     Finance       |-> [expertise |-> 3,  authority |-> 2],
     Legal         |-> [expertise |-> 5,  authority |-> 0],
     Technology    |-> [expertise |-> 0,  authority |-> 5],
     Construction  |-> [expertise |-> 0,  authority |-> -5],
     RealEstate    |-> [expertise |-> -2, authority |-> 3],
     Environmental |-> [expertise |-> 2,  authority |-> -3]]

\* The industry strings the tables are keyed by ("Real Estate" is written
\* RealEstate), an unrecognised one and the empty string.
KnownIndustries == DOMAIN industryAdjustments

Industries == KnownIndustries \cup {"Retail", ""}

baseExpertiseThreshold == 70

baseAuthorityThreshold == 65

minThresholdSeparation == 5

\* Insert v into an ascending sequence
RECURSIVE InsertAscending(_, _)
InsertAscending(s, v) ==
    IF s = <<>> THEN <<v>>
    ELSE IF v < Head(s) THEN <<v>> \o s
         ELSE <<Head(s)>> \o InsertAscending(Tail(s), v)

\* Array.prototype.sort((a, b) => a - b)
RECURSIVE SortAscending(_)
SortAscending(s) ==
    IF s = <<>> THEN <<>>
    ELSE InsertAscending(SortAscending(Tail(s)), Head(s))

\* Pairs <<percentile, threshold>> at which the double expression
\* percentile*0.7 + threshold*0.3 falls just below an exact .5 tie, so that
\* Math.round gives one less than round-half-up of the exact value (all
\* such pairs for integer percentiles 0..100 and the reachable thresholds).
FloatTieDown ==
    {<<7, 62>>, <<17, 62>>, <<97, 62>>, <<2, 67>>, <<12, 67>>, <<92, 67>>,
     <<53, 68>>, <<7, 72>>, <<97, 72>>, <<48, 73>>, <<58, 73>>}

\* Math.round((percentile * 0.7) + (threshold * 0.3))
BlendThreshold(percentile, threshold) ==
    LET exact == RoundDiv(7 * percentile + 3 * threshold, 10)
    IN  IF <<percentile, threshold>> \in FloatTieDown THEN exact - 1 ELSE exact

\* Thresholds after the industry adjustment
IndustryThresholds(ind) ==
    IF ind # "" /\ ind \in KnownIndustries
      THEN [expertise |-> baseExpertiseThreshold + industryAdjustments[ind].expertise,
            authority |-> baseAuthorityThreshold + industryAdjustments[ind].authority]
      ELSE [expertise |-> baseExpertiseThreshold,
            authority |-> baseAuthorityThreshold]

\* The blend with the median in place of the element at floor(n * 0.7) (a
\* mutant of BlendedThresholds)
BlendedThresholdsAtMedian(competitors, ind) ==
    LET t == IndustryThresholds(ind)
        n == Len(competitors)
        expertiseScores ==
            SortAscending([k \in 1..n |-> OrDefault(competitors[k].expertiseScore, 50)])
        authorityScores ==
            SortAscending([k \in 1..n |-> OrDefault(competitors[k].authorityScore, 50)])
        medianIndex == FloorDiv(n, 2) + 1
    IN  [expertise |-> BlendThreshold(expertiseScores[medianIndex], t.expertise),
         authority |-> BlendThreshold(authorityScores[medianIndex], t.authority)]

\* Thresholds after the percentile blend, before the separation step
BlendedThresholds(competitors, ind) ==
    LET t == IndustryThresholds(ind)
        n == Len(competitors)
        expertiseScores ==
            SortAscending([k \in 1..n |-> OrDefault(competitors[k].expertiseScore, 50)])
        authorityScores ==
            SortAscending([k \in 1..n |-> OrDefault(competitors[k].authorityScore, 50)])
        \* Math.floor(n * 0.7), as a 1-based index
        expertiseIndex == FloorDiv(n * 7, 10) + 1
        authorityIndex == FloorDiv(n * 7, 10) + 1
    IN  [expertise |-> BlendThreshold(expertiseScores[expertiseIndex], t.expertise),
         authority |-> BlendThreshold(authorityScores[authorityIndex], t.authority)]

\* Push thresholds closer than minThresholdSeparation apart
\* (Math.ceil(5/2) = 3 onto the higher, Math.floor(5/2) = 2 off the lower)
SeparateThresholds(t) ==
    LET diff == t.expertise - t.authority
        absDiff == IF diff < 0 THEN -diff ELSE diff
        up == (minThresholdSeparation + 1) \div 2
        down == minThresholdSeparation \div 2
    IN  IF absDiff < minThresholdSeparation
          THEN IF t.expertise > t.authority
                 THEN [expertise |-> t.expertise + up, authority |-> t.authority - down]
                 ELSE [expertise |-> t.expertise - down, authority |-> t.authority + up]
          ELSE t

\* The percentile blend entered from two peers on (a mutant of Thresholds)
ThresholdsFromTwoPeers(competitors, ind) ==
    IF Len(competitors) >= 2
      THEN SeparateThresholds(BlendedThresholds(competitors, ind))
      ELSE IndustryThresholds(ind)

\* The thresholds determineMarketPosition finally compares against
Thresholds(competitors, ind) ==
    IF Len(competitors) >= 3
      THEN SeparateThresholds(BlendedThresholds(competitors, ind))
      ELSE IndustryThresholds(ind)

\* Classify with the label vocabulary of the superseded revision in the top
\* right quadrant (a mutant of Classify)
ClassifyLegacyVocabulary(curvedE, curvedA, t) ==
    IF curvedE >= t.expertise /\ curvedA >= t.authority THEN "DIGITAL AUTHORITY"
    ELSE IF curvedE >= t.expertise /\ curvedA < t.authority THEN HIDDEN_EXPERT
    ELSE IF curvedE < t.expertise /\ curvedA >= t.authority
           THEN VISIBILITY_WITHOUT_SUBSTANCE
           ELSE LOW_PROFILE

\* The final if / else-if chain on the curved scores
Classify(curvedE, curvedA, t) ==
    IF curvedE >= t.expertise /\ curvedA >= t.authority THEN VERIFIED_EXPERT
    ELSE IF curvedE >= t.expertise /\ curvedA < t.authority THEN HIDDEN_EXPERT
    ELSE IF curvedE < t.expertise /\ curvedA >= t.authority
           THEN VISIBILITY_WITHOUT_SUBSTANCE
           ELSE LOW_PROFILE

determineMarketPosition(e, a, competitors, ind) ==
    Classify(applyCurve(e), applyCurve(a), Thresholds(competitors, ind))

\* The two-argument call used by the generator and the enrichment pipeline
\* (competitors = [], industry = '').  An absent score curves to NaN, every
\* comparison with it is false and the chain ends in its last branch.
determineMarketPosition2(e, a) ==
    IF e = Undefined \/ a = Undefined
      THEN LOW_PROFILE
      ELSE determineMarketPosition(e, a, <<>>, "")

-----------------------------------------------------------------------------
(* Credibility weights (analysis-engine.js) *)

\* Weights are held in thousandths: 0.45 is 450 and the adaptive step 0.025
\* is 25.  A weight that is not there (undefined, or NaN after arithmetic on
\* it) is Undefined.
WeightScale == 1000

NoWeights == [expertise |-> Undefined, authority |-> Undefined,
              communication |-> Undefined]

NoAnalysis == [expertiseScore |-> Undefined, authorityScore |-> Undefined,
               communicationScore |-> Undefined]

\* industryRegulations[...].scoreWeightAdjustments; the third weight is
\* consistencyWeight there and is held in the communication field.
scoreWeightAdjustments ==
    [Healthcare   |-> [expertise |-> 500, authority |-> 300, communication |-> 200],
     Finance      |-> [expertise |-> 450, authority |-> 300, communication |-> 250],
     Legal        |-> [expertise |-> 500, authority |-> 250, communication |-> 250],
     Construction |-> [expertise |-> 400, authority |-> 400, communication |-> 200],
     RealEstate   |-> [expertise |-> 400, authority |-> 400, communication |-> 200],
     Default      |-> [expertise |-> 450, authority |-> 350, communication |-> 200]]

\* Strings that name a property every object inherits: indexing a table with
\* one of them yields a function, which is truthy and has no weights.
InheritedKeys == {"constructor"}

\* getIndustryWeights: industryRegulations[industry] || industryRegulations
\* ["Default"], its scoreWeightAdjustments when it has them, else the literal.
getIndustryWeights(ind) ==
    IF ind \in DOMAIN scoreWeightAdjustments
      THEN scoreWeightAdjustments[ind]
      ELSE IF ind \in InheritedKeys
             THEN [expertise |-> 450, authority |-> 350, communication |-> 200]
             ELSE scoreWeightAdjustments["Default"]

\* calculateCredibilityScore: const industryWeights
industryWeights ==
    [Healthcare   |-> [expertise |-> 450, authority |-> 250, communication |-> 300],
     Finance      |-> [expertise |-> 400, authority |-> 350, communication |-> 250],
     Legal        |-> [expertise |-> 450, authority |-> 300, communication |-> 250],
     Construction |-> [expertise |-> 350, authority |-> 300, communication |-> 350],
     RealEstate   |-> [expertise |-> 300, authority |-> 350, communication |-> 350],
     Technology   |-> [expertise |-> 350, authority |-> 400, communication |-> 250],
     default      |-> [expertise |-> 400, authority |-> 300, communication |-> 300]]

\* const weights = industryWeights[industry] || industryWeights.default;
\* spreading the function an inherited key yields gives an object without
\* weights.
SelectWeights(ind) ==
    IF ind \in DOMAIN industryWeights
      THEN industryWeights[ind]
      ELSE IF ind \in InheritedKeys THEN NoWeights ELSE industryWeights["default"]

\* w += d on a weight; on a missing weight the result is NaN
AddWeight(w, d) == IF w = Undefined THEN Undefined ELSE w + d

\* The adaptive step with only its +0.05 (a mutant of AdjustWeights)
AdjustWeightsRaiseOnly(w, e, a, c) ==
    IF e > a + 20 /\ e > c + 20
      THEN [w EXCEPT !.expertise = AddWeight(@, 50)]
    ELSE IF a > e + 20 /\ a > c + 20
      THEN [w EXCEPT !.authority = AddWeight(@, 50)]
    ELSE IF c > e + 20 /\ c > a + 20
      THEN [w EXCEPT !.communication = AddWeight(@, 50)]
    ELSE w

\* The adaptive step: the score more than 20 above both others gains 0.05 and
\* the others lose 0.025 each.
AdjustWeights(w, e, a, c) ==
    IF e > a + 20 /\ e > c + 20
      THEN [expertise |-> AddWeight(w.expertise, 50),
            authority |-> AddWeight(w.authority, 0 - 25),
            communication |-> AddWeight(w.communication, 0 - 25)]
    ELSE IF a > e + 20 /\ a > c + 20
      THEN [expertise |-> AddWeight(w.expertise, 0 - 25),
            authority |-> AddWeight(w.authority, 50),
            communication |-> AddWeight(w.communication, 0 - 25)]
    ELSE IF c > e + 20 /\ c > a + 20
      THEN [expertise |-> AddWeight(w.expertise, 0 - 25),
            authority |-> AddWeight(w.authority, 0 - 25),
            communication |-> AddWeight(w.communication, 50)]
    ELSE w

\* Math.max(30, Math.min(95, Math.round(score))) of the weighted sum; NaN
\* when a weight is missing.
WeightedScore(w, e, a, c) ==
    IF w.expertise = Undefined \/ w.authority = Undefined
           \/ w.communication = Undefined
      THEN Undefined
      ELSE Max(30, Min(95, RoundDiv(w.expertise * e + w.authority * a
                                    + w.communication * c, WeightScale)))

\* calculateCredibilityScore(analysis, industry): the weights selected, the
\* weights after the adaptive step and the score returned
calculateCredibilityScore(a, ind) ==
    LET e == OrDefault(a.expertiseScore, 0)
        au == OrDefault(a.authorityScore, 0)
        c == OrDefault(a.communicationScore, 0)
        selected == SelectWeights(ind)
        adjusted == AdjustWeights(selected, e, au, c)
    IN  [weights |-> selected, adjustedWeights |-> adjusted,
         finalScore |-> WeightedScore(adjusted, e, au, c)]

-----------------------------------------------------------------------------
(* getWebsiteContent (content-fetcher.js) *)

maxRetries == 3

\* How the promise of getWebsiteContent stands: not settled, resolved with a
\* string, resolved with undefined, or rejected with the error of an attempt.
NotSettled == [outcome |-> "", kind |-> "", value |-> ""]

ResolvedWith(text) == [outcome |-> "resolved", kind |-> "string", value |-> text]

ResolvedUndefined == [outcome |-> "resolved", kind |-> "undefined", value |-> ""]

RejectedWith(error) == [outcome |-> "rejected", kind |-> "error", value |-> error]

\* String.prototype.startsWith
startsWith(str, prefix) ==
    Len(str) >= Len(prefix) /\ SubSeq(str, 1, Len(prefix)) = prefix

\* if (!url.startsWith('http://') && !url.startsWith('https://')) url = 'https://' + url;
WithProtocol(u) ==
    IF ~startsWith(u, "http://") /\ ~startsWith(u, "https://")
      THEN "https://" \o u
      ELSE u

\* The text built from a fetched page: the title, meta description and
\* location when there are any, then CONTENT: and the main text, with every
\* run of white space replaced by one space and the ends trimmed.  The parts
\* of a page are given trimmed and single-spaced.
cleanedContent(page) ==
    (IF page.title # "" THEN "TITLE: " \o page.title \o " " ELSE "")
    \o (IF page.metaDescription # ""
          THEN "DESCRIPTION: " \o page.metaDescription \o " " ELSE "")
    \o (IF page.locationInfo # ""
          THEN "LOCATION: " \o page.locationInfo \o " " ELSE "")
    \o "CONTENT:"
    \o (IF page.mainContent # "" THEN " " \o page.mainContent ELSE "")

\* The failures of fetchClient.get: a response with status 429, a response
\* with another status, and an error without a response.
FetchFailures == {"429", "500", "network"}

\* The catch block after retries++ (n is the incremented count): the delay
\* awaited (0 for none) and how the promise stands afterwards.  After the
\* wait of a 429 the loop condition is tested again, and when it fails the
\* function ends without a return statement.
AfterFailure(failure, n) ==
    IF failure = "429"
      THEN [wait |-> n * 2000,
            result |-> IF n < maxRetries THEN NotSettled ELSE ResolvedUndefined]
    ELSE IF n < maxRetries
      THEN [wait |-> 1000, result |-> NotSettled]
      ELSE [wait |-> 0, result |-> RejectedWith(failure)]

-----------------------------------------------------------------------------
(* analyzeContent (analysis-engine.js, AI Analysis Module); its maxRetries
   is 3 as well *)

\* The analysis object is held by its three component scores and the
\* credibilityScore the function adds
NoAiAnalysis ==
    [expertiseScore |-> Undefined, authorityScore |-> Undefined,
     communicationScore |-> Undefined, credibilityScore |-> Undefined]

\* How the promise of analyzeContent stands: not settled, resolved with null
\* or resolved with the analysis object
AnalysisPending == [outcome |-> "", kind |-> "", value |-> NoAiAnalysis]

ResolvedNull == [outcome |-> "resolved", kind |-> "null", value |-> NoAiAnalysis]

\* return analysisData, after
\* analysisData.credibilityScore = calculateCredibilityScore(analysisData)
ResolvedAnalysis(parsed) ==
    [outcome |-> "resolved", kind |-> "analysis",
     value |-> [expertiseScore |-> parsed.expertiseScore,
                authorityScore |-> parsed.authorityScore,
                communicationScore |-> parsed.communicationScore,
                credibilityScore |->
                    calculateCredibilityScore(parsed, "").finalScore]]

\* What the try block does with the response axios.post resolved with: a
\* response without choices returns null, a message that JSON.parse or the
\* post-processing throws on returns null from the inner catch block
AfterAiResponse(response) ==
    IF response.kind = "analysis"
      THEN ResolvedAnalysis(response.parsed)
      ELSE ResolvedNull

\* The catch block with every error retried (a mutant of AfterAiFailure)
AfterAiFailureRetryAll(failure, n) ==
    [retries |-> n + 1, wait |-> (n + 1) * 3000, result |-> AnalysisPending]

\* The catch block, entered with retries = n: a 429 increments retries and
\* waits retries * 3000 ms, any other error returns null
AfterAiFailure(failure, n) ==
    IF failure = "429"
      THEN [retries |-> n + 1, wait |-> (n + 1) * 3000, result |-> AnalysisPending]
      ELSE [retries |-> n, wait |-> 0, result |-> ResolvedNull]

-----------------------------------------------------------------------------
(* Entities *)

\* a missing string-valued property that is dereferenced (userData.domain)
NoDomain == "<undefined>"

\* entity.seoData absent: every read of it is guarded (seoData && ..., ?.)
NoSeoData ==
    [traffic |-> Undefined, socialFollowers |-> Undefined,
     keywords |-> Undefined, backlinks |-> Undefined]

\* entity.googleData absent
NoGoogleData == [rating |-> Undefined, userRatingsTotal |-> Undefined]

\* chartPosition absent
NoChartPosition == [x |-> Undefined, y |-> Undefined, radius |-> Undefined]

\* scoreLabels absent
NoScoreLabels == [overall |-> "", expertise |-> "", audienceTrust |-> "",
                  communication |-> ""]

\* An entity with no property set.  name is a tag standing for the composed
\* business name, 0 when absent; position and location are "" when absent
\* (read only through truthiness tests); rating is held in hundredths of a
\* star; hasAnalysis is "yes", "no" or, when absent, "".
BlankEntity ==
    [name |-> 0, url |-> "", expertiseScore |-> Undefined,
     authorityScore |-> Undefined, communicationScore |-> Undefined,
     position |-> "", isSimulated |-> FALSE, isBoss |-> FALSE,
     specialty |-> "", location |-> "", seoData |-> NoSeoData,
     googleData |-> NoGoogleData, credibilityScore |-> Undefined,
     isEstimated |-> FALSE, chartPosition |-> NoChartPosition,
     hasAnalysis |-> "", hasAiAnalysis |-> FALSE, scoreLabels |-> NoScoreLabels]

-----------------------------------------------------------------------------
(* content-fetcher: extractLocationFromDomain *)

\* The domains of the model and the location name each contains, if any
DomainLocation ==
    [acme_com_au |-> "", sydneyroofing_com_au |-> "Sydney"]

\* domain.toLowerCase() throws a TypeError on an undefined domain; otherwise
\* the first listed location the domain contains, or ''.
extractLocationFromDomain(domain) ==
    IF domain = NoDomain
      THEN [threw |-> TRUE, value |-> ""]
      ELSE [threw |-> FALSE, value |-> DomainLocation[domain]]

-----------------------------------------------------------------------------
(* 4.3 Simulated competitor generator *)

\* getEstimatedTraffic's base ranges ("Real Estate" is written RealEstate)
baseTraffic ==
    [Healthcare    |-> [min |-> 500, max |-> 2000],
     Construction  |-> [min |-> 300, max |-> 1500],
     Environmental |-> [min |-> 400, max |-> 1200],
     Technology    |-> [min |-> 800, max |-> 3000],
     Finance       |-> [min |-> 600, max |-> 2500],
     Legal         |-> [min |-> 400, max |-> 2000],
     RealEstate    |-> [min |-> 700, max |-> 2800]]

\* Math.floor((Math.random() * (max - min) + min) * multiplier), the draw
\* being u/100 and the multiplier 1.5 for the top competitor
getEstimatedTraffic(ind, isTopCompetitor, u) ==
    LET indBase == IF ind \in DOMAIN baseTraffic
                     THEN baseTraffic[ind]
                     ELSE [min |-> 500, max |-> 2000]
        twice == IF isTopCompetitor THEN 3 ELSE 2
    IN  FloorDiv((u * (indBase.max - indBase.min) + 100 * indBase.min) * twice, 200)

\* The competitor object literal built by one iteration of the loop.  d holds
\* the iteration's random outcomes: d.expertise, d.authority, d.consistency
\* are the three results of generateScoreWithDistribution (38..83), d.u is
\* the value, in hundredths, of the Math.random() draws behind the SEO and
\* Google figures, and d.exactLocation is the outcome of Math.random() > 0.6.
\* (The random composition of the name is left out: name is a tag.)
CompetitorObject(i, isTopCompetitor, ind, spec, userLocation, d) ==
    LET traffic == getEstimatedTraffic(ind, isTopCompetitor, d.u)
    IN  [BlankEntity EXCEPT
            !.name = i + 1,
            !.url = "https://www.competitor.com.au",
            !.expertiseScore = d.expertise,
            !.authorityScore = d.authority,
            !.communicationScore = d.consistency,
            !.position = determineMarketPosition2(d.expertise, d.authority),
            !.isSimulated = TRUE,
            !.isBoss = isTopCompetitor,
            !.specialty = IF spec # "" THEN spec ELSE ind,
            !.location = IF userLocation = "" THEN ""
                         ELSE IF d.exactLocation THEN userLocation
                              ELSE "nearby " \o userLocation,
            !.seoData = [traffic |-> traffic,
                         socialFollowers |-> IF isTopCompetitor
                                               THEN 20 * d.u + 1000
                                               ELSE 10 * d.u + 100,
                         keywords |-> FloorDiv(traffic, 5) + d.u,
                         backlinks |-> FloorDiv(traffic, 10) + FloorDiv(d.u, 2)],
            !.googleData = [rating |-> 350 + FloorDiv(150 * d.u, 100),
                            userRatingsTotal |-> FloorDiv(d.u, 2) + 5]]

\* isTopCompetitor taken as i <= 1 (a mutant of NewCompetitor)
NewCompetitorOffByOne(i, ind, spec, userLocation, d) ==
    CompetitorObject(i, i <= 1, ind, spec, userLocation, d)

\* One iteration of the loop before the top-competitor block:
\* const isTopCompetitor = i === 0
NewCompetitor(i, ind, spec, userLocation, d) ==
    CompetitorObject(i, i = 0, ind, spec, userLocation, d)

\* Math.min(95, userScore + Math.floor(Math.random() * 15) + 5)
RaisedScore(userScore, bump) == Min(95, userScore + bump)

\* The `if (isTopCompetitor)` block.  b.raiseExpertise is the outcome of
\* Math.random() > 0.5, b.bump that of Math.floor(Math.random() * 15) + 5.
MakeBoss(competitor, user, b, u) ==
    LET userExpertise == OrDefault(user.expertiseScore, 60)
        userAuthority == OrDefault(user.authorityScore, 50)
        behind == /\ competitor.expertiseScore <= userExpertise
                  /\ competitor.authorityScore <= userAuthority
        raised ==
            IF behind
              THEN IF b.raiseExpertise
                     THEN [competitor EXCEPT
                             !.expertiseScore = RaisedScore(userExpertise, b.bump)]
                     ELSE [competitor EXCEPT
                             !.authorityScore = RaisedScore(userAuthority, b.bump)]
              ELSE competitor
    IN  [raised EXCEPT
            !.position = VERIFIED_EXPERT,
            !.googleData = [rating |-> Min(500, 420 + FloorDiv(80 * u, 100)),
                            userRatingsTotal |-> u + 25]]

\* The loop of generateSimulatedCompetitors: entity k (1-based) of the batch
GeneratedCompetitor(k, ind, spec, user, userLocation, rnd) ==
    LET competitor == NewCompetitor(k - 1, ind, spec, userLocation, rnd.draws[k])
    IN  IF k = 1
          THEN MakeBoss(competitor, user, rnd.boss, rnd.draws[k].u)
          ELSE competitor

\* generateSimulatedCompetitors(industry, specialty, userData, count) with the
\* random outcomes rnd; the result is the list returned, or the exception.
generateSimulatedCompetitors(ind, spec, user, n, rnd) ==
    LET fromDomain == extractLocationFromDomain(user.domain)
        userLocation == IF user.location # "" THEN user.location ELSE fromDomain.value
    IN  IF user.location = "" /\ fromDomain.threw
          THEN [outcome |-> "threw", value |-> <<>>]
          ELSE [outcome |-> "returned",
                value |-> [k \in 1..n |->
                             GeneratedCompetitor(k, ind, spec, user, userLocation, rnd)]]

-----------------------------------------------------------------------------
(* 4.6 Quadrant layout engine *)

\* Inside the layout engine a score is held in thousandths of a point and a
\* pixel coordinate in hundredths of a pixel.
ScoreScale == 1000

PixelScale == 100

circleRadius == 40

padding == 15

maxAttempts == 50

\* borderPadding = radius + 40
borderMargin == 40

\* The entity with its two scores taken into thousandths
ToLayoutScale(e) ==
    [e EXCEPT !.expertiseScore = e.expertiseScore * ScoreScale,
              !.authorityScore = e.authorityScore * ScoreScale]

\* <<cos, sin>> of angle = (index / groupSize) * Math.PI in thousandths, for
\* <<index, groupSize>> (Math.cos(Math.PI / 2) is 6e-17, which leaves a score
\* of 30 or more unchanged when added: 0)
DispersionDirection ==
    [p \in {<<1, 2>>, <<1, 3>>, <<2, 3>>, <<1, 4>>, <<2, 4>>, <<3, 4>>,
            <<1, 5>>, <<2, 5>>, <<3, 5>>, <<4, 5>>} |->
        CASE p = <<1, 2>> -> <<0, 1000>>
          [] p = <<1, 3>> -> <<500, 866>>
          [] p = <<2, 3>> -> <<-500, 866>>
          [] p = <<1, 4>> -> <<707, 707>>
          [] p = <<2, 4>> -> <<0, 1000>>
          [] p = <<3, 4>> -> <<-707, 707>>
          [] p = <<1, 5>> -> <<809, 588>>
          [] p = <<2, 5>> -> <<309, 951>>
          [] p = <<3, 5>> -> <<-309, 951>>
          [] p = <<4, 5>> -> <<-809, 588>>]

\* Math.max(30, Math.min(95, score)) in thousandths
ClampScore(score) == Max(30 * ScoreScale, Min(95 * ScoreScale, score))

\* The dispersion pre-pass on the entity at position k of the list: index is
\* its index in its quadrant's group and groupSize the size of the group.
\* `if (competitor.authorityScore)` is a test for a non-zero number here.
DisperseOne(list, k) ==
    LET c == list[k]
        quadrant == c.position
        group == {j \in 1..Len(list) : list[j].position = quadrant}
        groupSize == Cardinality(group)
        index == Cardinality({j \in group : j < k})
        isHighExpertise == quadrant \in {VERIFIED_EXPERT, HIDDEN_EXPERT}
        isHighAuthority == quadrant \in {VERIFIED_EXPERT, VISIBILITY_WITHOUT_SUBSTANCE}
        distance == 5 + index * 3
        dirX == IF isHighAuthority THEN 1 ELSE -1
        dirY == IF isHighExpertise THEN 1 ELSE -1
        dir == DispersionDirection[<<index, groupSize>>]
        movedA == IF c.authorityScore # 0
                    THEN c.authorityScore + dirX * distance * dir[1]
                    ELSE c.authorityScore
        movedE == IF c.expertiseScore # 0
                    THEN c.expertiseScore + dirY * distance * dir[2]
                    ELSE c.expertiseScore
    IN  IF quadrant \notin Labels \/ groupSize <= 1 \/ index = 0
          THEN c
          ELSE [c EXCEPT
                  !.authorityScore = IF movedA # 0 THEN ClampScore(movedA) ELSE movedA,
                  !.expertiseScore = IF movedE # 0 THEN ClampScore(movedE) ELSE movedE]

\* The dispersion pre-pass on the whole list (the entities are nudged in place)
Disperse(list) == [k \in 1..Len(list) |-> DisperseOne(list, k)]

\* Integer scores at which the double product falls just below the exact
\* integer, so that Math.floor gives one less: score/100 * width for the
\* widths 800 and 400, and (1 - score/100) * height for the heights 600 and 300
FloatFloorDownX == {29, 57, 58}

FloatFloorDownY == {31, 32, 33, 34, 56, 66, 67, 68, 78, 79, 80, 81, 89, 90, 91, 92, 93}

\* Math.floor(xPercent * chartDimensions.width), in pixels
PixelX(score, width) ==
    LET exact == FloorDiv(score * width, 100 * ScoreScale)
    IN  IF score % ScoreScale = 0 /\ (score \div ScoreScale) \in FloatFloorDownX
          THEN exact - 1
          ELSE exact

\* Math.floor((1 - yPercent) * chartDimensions.height), in pixels
PixelY(score, height) ==
    LET exact == FloorDiv((100 * ScoreScale - score) * height, 100 * ScoreScale)
    IN  IF score % ScoreScale = 0 /\ (score \div ScoreScale) \in FloatFloorDownY
          THEN exact - 1
          ELSE exact

\* <<deltaX, deltaY>> of the spiral at each attempt 0..49, in hundredths of a
\* pixel: angle = 0.5 * attempts, distance = 5 * Math.ceil(attempts / 6)
SpiralDelta ==
    <<<<0, 0>>, <<439, 240>>, <<270, 421>>, <<35, 499>>, <<-208, 455>>,
      <<-401, 299>>, <<-495, 71>>, <<-936, -351>>, <<-654, -757>>, <<-211, -978>>,
      <<284, -959>>, <<709, -706>>, <<960, -279>>, <<1465, 323>>, <<1131, 985>>,
      <<520, 1407>>, <<-218, 1484>>, <<-903, 1198>>, <<-1367, 618>>, <<-1994, -150>>,
      <<-1678, -1088>>, <<-951, -1759>>, <<9, -2000>>, <<967, -1751>>, <<1688, -1073>>,
      <<2494, -166>>, <<2269, 1050>>, <<1487, 2009>>, <<342, 2477>>, <<-887, 2337>>,
      <<-1899, 1626>>, <<-2935, 619>>, <<-2873, -864>>, <<-2107, -2135>>, <<-825, -2884>>,
      <<658, -2927>>, <<1981, -2253>>, <<3288, -1199>>, <<3460, 525>>, <<2785, 2119>>,
      <<1428, 3195>>, <<-278, 3489>>, <<-1917, 2928>>, <<-3527, 1887>>, <<-4000, -35>>,
      <<-3493, -1949>>, <<-2131, -3385>>, <<-248, -3992>>, <<1697, -3622>>, <<3629, -2661>>>>

Abs(v) == IF v < 0 THEN -v ELSE v

\* Math.sqrt((x - space.x)^2 + (y - space.y)^2) < radius + space.radius + padding
\* (compared on the squares; a gap of the full sum on one axis decides alone)
TooClose(x, y, radius, space) ==
    LET dx == Abs(x - space.x)
        dy == Abs(y - space.y)
        sum == radius + space.radius + padding * PixelScale
    IN  dx < sum /\ dy < sum /\ dx * dx + dy * dy < sum * sum

\* The for loop over occupiedSpaces
OverlapsOccupied(x, y, radius, occupiedSpaces) ==
    \E k \in 1..Len(occupiedSpaces) : TooClose(x, y, radius, occupiedSpaces[k])

\* x < borderPadding || x > width - borderPadding || y < ... || y > ...
NearBorder(x, y, radius, dims) ==
    LET borderPadding == radius + borderMargin * PixelScale
    IN  \/ x < borderPadding
        \/ x > dims.width * PixelScale - borderPadding
        \/ y < borderPadding
        \/ y > dims.height * PixelScale - borderPadding

\* Math.max(radius, Math.min(limit - radius, base + delta))
ClampToCanvas(v, radius, limit) == Max(radius, Min(limit * PixelScale - radius, v))

\* The test of every occupied space left out of the loop (a mutant of Rejected)
RejectedBorderOnly(x, y, radius, occupiedSpaces, dims) ==
    NearBorder(x, y, radius, dims)

\* isOverlapping after the two tests of one pass of the while loop
Rejected(x, y, radius, occupiedSpaces, dims) ==
    \/ OverlapsOccupied(x, y, radius, occupiedSpaces)
    \/ NearBorder(x, y, radius, dims)

\* The while loop: the candidate (x, y) and the loop variables at exit
RECURSIVE SearchPosition(_, _, _, _, _, _, _, _)
SearchPosition(x, y, attempts, baseX, baseY, radius, occupiedSpaces, dims) ==
    IF attempts >= maxAttempts
      THEN [x |-> x, y |-> y, attempts |-> attempts, isOverlapping |-> TRUE]
      ELSE IF ~Rejected(x, y, radius, occupiedSpaces, dims)
             THEN [x |-> x, y |-> y, attempts |-> attempts, isOverlapping |-> FALSE]
             ELSE SearchPosition(
                    ClampToCanvas(baseX + SpiralDelta[attempts + 1][1], radius, dims.width),
                    ClampToCanvas(baseY + SpiralDelta[attempts + 1][2], radius, dims.height),
                    attempts + 1, baseX, baseY, radius, occupiedSpaces, dims)

\* radius = competitor.isBoss ? circleRadius * 1.2 : circleRadius
RadiusOf(c) ==
    IF c.isBoss THEN (circleRadius * 12 * PixelScale) \div 10
                ELSE circleRadius * PixelScale

\* One pass of the placing loop for competitor c
PlaceOne(c, occupiedSpaces, dims) ==
    LET radius == RadiusOf(c)
        baseX == PixelX(c.authorityScore, dims.width) * PixelScale
        baseY == PixelY(c.expertiseScore, dims.height) * PixelScale
    IN  [radius |-> radius]
          @@ SearchPosition(baseX, baseY, 0, baseX, baseY, radius, occupiedSpaces, dims)

\* The placing loop over the first n competitors: the loop exits, in order
RECURSIVE PlaceAll(_, _, _)
PlaceAll(list, n, dims) ==
    IF n = 0 THEN <<>>
    ELSE LET before == PlaceAll(list, n - 1, dims)
             occupiedSpaces == [k \in 1..(n - 1) |->
                                  [x |-> before[k].x, y |-> before[k].y,
                                   radius |-> before[k].radius]]
         IN  Append(before, PlaceOne(list[n], occupiedSpaces, dims))

\* calculateCompetitorPositions(competitors, chartDimensions): the loop exits
\* of the entities of the given list (scores in thousandths)
LayoutSearches(list, dims) == PlaceAll(Disperse(list), Len(list), dims)

\* calculateCompetitorPositions(competitors, chartDimensions): the list
\* returned, each entity nudged by the pre-pass and given its chartPosition
calculateCompetitorPositions(list, dims) ==
    LET dispersed == Disperse(list)
        placed == PlaceAll(dispersed, Len(list), dims)
    IN  [k \in 1..Len(list) |->
            [dispersed[k] EXCEPT
               !.chartPosition = [x |-> placed[k].x, y |-> placed[k].y,
                                  radius |-> placed[k].radius]]]

-----------------------------------------------------------------------------
(* Insight generator: generateCompetitiveInsights *)

\* aTotal = aGoogleScore + aSeoScore + aAuthorityScore of the sort's compare
\* function, times 500 (rating is held in hundredths):
\* (userRatingsTotal || 0) * (rating || 3) / 5 + (traffic || 0) / 100
\* + (keywords || 0) / 50 + (backlinks || 0) / 20 + (socialFollowers || 0) / 50
\* + (authorityScore || 50)
TotalScore(c) ==
    OrDefault(c.googleData.userRatingsTotal, 0) * OrDefault(c.googleData.rating, 300)
    + 5 * OrDefault(c.seoData.traffic, 0)
    + 10 * OrDefault(c.seoData.keywords, 0)
    + 25 * OrDefault(c.seoData.backlinks, 0)
    + 10 * OrDefault(c.seoData.socialFollowers, 0)
    + 500 * OrDefault(c.authorityScore, 50)

\* Index k put into an index list sorted by descending total, after every
\* index whose total is not smaller (the sort is stable)
RECURSIVE InsertByTotal(_, _, _)
InsertByTotal(sorted, k, list) ==
    IF sorted = <<>> THEN <<k>>
    ELSE IF TotalScore(list[Head(sorted)]) >= TotalScore(list[k])
           THEN <<Head(sorted)>> \o InsertByTotal(Tail(sorted), k, list)
           ELSE <<k>> \o sorted

\* [...competitors].sort((a, b) => bTotal - aTotal), as indexes into the list
RECURSIVE SortedCompetitors(_, _)
SortedCompetitors(list, n) ==
    IF n = 0 THEN <<>>
    ELSE InsertByTotal(SortedCompetitors(list, n - 1), n, list)

\* An insight: type and title as in the code; the message is held by its
\* variable parts (name is the competitor's name tag, strength the
\* competitorStrength, figure and rating the numbers quoted in strengthData,
\* gap the competitiveGap sentence, comparison the getComparisonToAverage text)
BlankInsight ==
    [type |-> "", title |-> "", name |-> Undefined, strength |-> "",
     figure |-> Undefined, rating |-> Undefined, gap |-> "", comparison |-> ""]

\* The industry-specific wording for reviews
ReviewStrength(ind) ==
    CASE ind = "Healthcare" -> "patient reviews and testimonials"
      [] ind = "Construction" -> "client reviews and portfolio showcases"
      [] ind = "Finance" -> "client testimonials and case studies"
      [] ind = "Legal" -> "client reviews and case outcomes"
      [] ind = "Real Estate" -> "client reviews and property listings"
      [] OTHER -> "customer reviews and testimonials"

\* competitorStrength and the numbers of strengthData: the first metric of
\* the top competitor over its mark
CompetitorStrength(top, ind) ==
    IF Truthy(top.seoData.traffic) /\ top.seoData.traffic > 1000
      THEN [strength |-> "SEO and website traffic",
            figure |-> top.seoData.traffic, rating |-> Undefined]
    ELSE IF top.googleData.userRatingsTotal > 15
      THEN [strength |-> ReviewStrength(ind),
            figure |-> top.googleData.userRatingsTotal,
            rating |-> top.googleData.rating]
    ELSE IF Truthy(top.seoData.socialFollowers) /\ top.seoData.socialFollowers > 500
      THEN [strength |-> "social media presence",
            figure |-> top.seoData.socialFollowers, rating |-> Undefined]
    ELSE IF Truthy(top.seoData.backlinks) /\ top.seoData.backlinks > 50
      THEN [strength |-> "link building and industry references",
            figure |-> top.seoData.backlinks, rating |-> Undefined]
    ELSE [strength |-> "online marketing", figure |-> Undefined, rating |-> Undefined]

\* competitiveGap
CompetitiveGap(user, top) ==
    IF /\ Truthy(user.expertiseScore) /\ Truthy(user.authorityScore)
       /\ Truthy(top.expertiseScore) /\ Truthy(top.authorityScore)
      THEN LET expertiseGap == top.expertiseScore - user.expertiseScore
               authorityGap == top.authorityScore - user.authorityScore
           IN  IF expertiseGap > 20 /\ authorityGap > 20 THEN "both"
               ELSE IF expertiseGap > 20 THEN "expertise"
               ELSE IF authorityGap > 20 THEN "authority"
               ELSE ""
      ELSE ""

\* The competitor insight pushed for the top competitor
CompetitorInsight(user, top, ind) ==
    LET s == CompetitorStrength(top, ind)
    IN  [BlankInsight EXCEPT
            !.type = "competitor", !.title = "Dominates Online",
            !.name = top.name, !.strength = s.strength, !.figure = s.figure,
            !.rating = s.rating, !.gap = CompetitiveGap(user, top)]

\* topCompetitor.isBoss = true, and the move of a top competitor that is
\* LOW PROFILE or unlabelled to VERIFIED EXPERT with its scores raised
MarkBoss(top) ==
    LET boss == [top EXCEPT !.isBoss = TRUE]
    IN  IF top.position = LOW_PROFILE \/ top.position = ""
          THEN [boss EXCEPT
                  !.position = VERIFIED_EXPERT,
                  !.authorityScore =
                      IF Truthy(top.authorityScore) /\ top.authorityScore < 60
                        THEN Max(65, top.authorityScore + 15)
                        ELSE top.authorityScore,
                  !.expertiseScore =
                      IF Truthy(top.expertiseScore) /\ top.expertiseScore < 60
                        THEN Max(65, top.expertiseScore + 10)
                        ELSE top.expertiseScore]
          ELSE boss

\* The competitor list after the call: the entities are shared with the
\* sorted copy, so the top competitor is changed in the caller's list
MarkedCompetitors(list) ==
    IF Len(list) = 0 THEN list
    ELSE LET top == SortedCompetitors(list, Len(list))[1]
         IN  [list EXCEPT ![top] = MarkBoss(list[top])]

\* The industry insight, and the AHPRA one for the regulated specialties
IndustryInsights(user, ind) ==
    LET industryInsight(title) ==
            <<[BlankInsight EXCEPT !.type = "industry", !.title = title]>>
    IN  CASE ind = "Healthcare" ->
               industryInsight("Healthcare Authority")
               \o (IF user.specialty \in {"Plastic Surgery", "Cosmetic Surgery"}
                     THEN <<[BlankInsight EXCEPT !.type = "regulation",
                                                 !.title = "AHPRA Compliance"]>>
                     ELSE <<>>)
          [] ind = "Construction" -> industryInsight("Construction Credibility")
          [] ind = "Environmental" -> industryInsight("Environmental Impact")
          [] ind = "Finance" -> industryInsight("Finance Trust Factors")
          [] ind = "Legal" -> industryInsight("Legal Authority")
          [] ind = "Real Estate" -> industryInsight("Property Expertise")
          [] OTHER -> <<>>

\* The hidden-expertise insight (a comparison with an absent score is false)
HiddenInsight(user) ==
    IF /\ user.expertiseScore # Undefined /\ user.authorityScore # Undefined
       /\ user.expertiseScore >= 65
       /\ user.authorityScore < 50
       /\ user.expertiseScore - user.authorityScore >= 20
      THEN <<[BlankInsight EXCEPT !.type = "hidden",
                                  !.title = "Hidden Expert Detected"]>>
      ELSE <<>>

\* industryAverages[industry] || industryAverages.default
industryAverages(ind) ==
    CASE ind = "Healthcare" -> 68
      [] ind = "Construction" -> 62
      [] ind = "Environmental" -> 58
      [] ind = "Technology" -> 75
      [] ind = "Finance" -> 71
      [] ind = "Legal" -> 70
      [] ind = "Real Estate" -> 64
      [] OTHER -> 60

getComparisonToAverage(score, ind) ==
    LET difference == score - industryAverages(ind)
    IN  IF difference >= 20 THEN "significantly above average"
        ELSE IF difference >= 10 THEN "above average"
        ELSE IF difference >= -10 THEN "around average"
        ELSE IF difference >= -20 THEN "below average"
        ELSE "significantly below average"

\* The average insight, pushed on every call
AverageInsight(user, ind) ==
    <<[BlankInsight EXCEPT
         !.type = "average", !.title = "Industry Average Comparison",
         !.comparison = getComparisonToAverage(OrDefault(user.credibilityScore, 0), ind)]>>

\* The insights array after all the pushes
PushedInsights(user, list, ind) ==
    (IF Len(list) > 0
       THEN <<CompetitorInsight(user, list[SortedCompetitors(list, Len(list))[1]], ind)>>
       ELSE <<>>)
    \o IndustryInsights(user, ind)
    \o HiddenInsight(user)
    \o AverageInsight(user, ind)

\* insights.find(i => i.type === type), as a list of at most one insight
FindInsight(all, type) ==
    LET found == SelectSeq(all, LAMBDA i : i.type = type)
    IN  IF found = <<>> THEN <<>> ELSE <<Head(found)>>

\* The whole prioritised list returned (a mutant of TopInsights)
TopInsightsUnbounded(prioritised) == prioritised

\* .slice(0, 3)
TopInsights(prioritised) == SubSeq(prioritised, 1, Min(3, Len(prioritised)))

\* generateCompetitiveInsights(userData, competitors, industry): the list returned
generateCompetitiveInsights(user, list, ind) ==
    LET all == PushedInsights(user, list, ind)
        otherInsights == SelectSeq(all, LAMBDA i :
                             i.type \notin {"competitor", "hidden", "average"})
    IN  TopInsights(FindInsight(all, "competitor") \o FindInsight(all, "hidden")
                    \o FindInsight(all, "average") \o otherInsights)

-----------------------------------------------------------------------------
(* Competitor enhancement: enhanceCompetitorData and its collaborators *)

\* What the collaborators do during one call of enhanceCompetitorData:
\*   places     the Places text search: "unconfigured" (no API key), "throws",
\*              "none" (no candidate) or "found"
\*   details    the Places details request: "throws", "rated" (rating 4.5 of
\*              40 reviews) or "unrated" (a result without rating)
\*   overview   the SEO domain overview: "throws" or "data"
\*   backlinks  the SEO backlink overview: "throws", "data" or "noTotal" (a
\*              result whose total_backlinks is 0)
\*   content    the Content Source: "rejects", "undefined" (the promise
\*              resolves without a value), "short" (100 characters or fewer)
\*              or "long"
\*   ai         the Text Classifier: "unconfigured" (no API key), "throws",
\*              "scores" or "partial" (a JSON object without the scores)
\*   u          the value of the Math.random() draws, in hundredths
PlacesOutcomes == {"unconfigured", "throws", "none", "found"}

DetailsOutcomes == {"throws", "rated", "unrated"}

OverviewOutcomes == {"throws", "data"}

BacklinkOutcomes == {"throws", "data", "noTotal"}

ContentOutcomes == {"rejects", "undefined", "short", "long"}

AiOutcomes == {"unconfigured", "throws", "scores", "partial"}

RandomDraws == {0, 100}

\* searchBusinessByName: the first candidate, or null after any failure
searchBusinessByName(places) ==
    IF places = "found"
      THEN [found |-> TRUE, formatted_address |-> "1 George St, Sydney NSW"]
      ELSE [found |-> FALSE, formatted_address |-> ""]

\* getBusinessDetails: data.result, or null after any failure
getBusinessDetails(details) ==
    CASE details = "rated" ->
           [found |-> TRUE, rating |-> 450, user_ratings_total |-> 40,
            formatted_address |-> "1 George St, Sydney NSW"]
      [] details = "unrated" ->
           [found |-> TRUE, rating |-> Undefined, user_ratings_total |-> Undefined,
            formatted_address |-> ""]
      [] OTHER ->
           [found |-> FALSE, rating |-> Undefined, user_ratings_total |-> Undefined,
            formatted_address |-> ""]

\* getDomainOverview: tasks[0].result[0], or null after any failure
getDomainOverview(overview) ==
    IF overview = "data"
      THEN [found |-> TRUE, organic_traffic_monthly |-> 900,
            organic_keywords_count |-> 80, backlinks_count |-> 25]
      ELSE [found |-> FALSE, organic_traffic_monthly |-> Undefined,
            organic_keywords_count |-> Undefined, backlinks_count |-> Undefined]

\* getBacklinkData: tasks[0].result[0], or null after any failure
getBacklinkData(backlinks) ==
    CASE backlinks = "data" -> [found |-> TRUE, total_backlinks |-> 70]
      [] backlinks = "noTotal" -> [found |-> TRUE, total_backlinks |-> 0]
      [] OTHER -> [found |-> FALSE, total_backlinks |-> Undefined]

\* analyzeContentWithAI: the parsed JSON, or null after any failure
analyzeContentWithAI(ai) ==
    CASE ai = "scores" ->
           [found |-> TRUE, expertiseScore |-> 80, authorityScore |-> 70,
            contentQualityScore |-> 60, trustScore |-> 75]
      [] ai = "partial" ->
           [found |-> TRUE, expertiseScore |-> Undefined, authorityScore |-> Undefined,
            contentQualityScore |-> Undefined, trustScore |-> Undefined]
      [] OTHER ->
           [found |-> FALSE, expertiseScore |-> Undefined, authorityScore |-> Undefined,
            contentQualityScore |-> Undefined, trustScore |-> Undefined]

\* analysisEngine.analyzeAuthorityIndex on the fetched page
analyzeAuthorityIndex ==
    [expertiseSignals |-> 55, digitalAuthority |-> 45, consistencyMarkers |-> 50]

\* The Places block: runs for a named competitor without googleData when the
\* API key is configured
PlacesReached(competitor) ==
    competitor.name # 0 /\ competitor.googleData = NoGoogleData

PlacesStep(competitor, o) ==
    LET searchResult == searchBusinessByName(o.places)
        details == getBusinessDetails(o.details)
    IN  IF /\ PlacesReached(competitor)
           /\ o.places # "unconfigured"
           /\ searchResult.found
           /\ details.found
          THEN [competitor EXCEPT
                  !.googleData = [rating |-> OrDefault(details.rating, 0),
                                  userRatingsTotal |->
                                      OrDefault(details.user_ratings_total, 0)],
                  !.location = IF competitor.location = ""
                                 THEN details.formatted_address
                                 ELSE competitor.location]
          ELSE competitor

\* The SEO block runs for an entity with a url and no (or empty) seoData
SeoReached(e) == e.url # "" /\ e.seoData = NoSeoData

\* The body of the SEO try block: the entity at its end, or at the point it
\* threw.  With no seoData assigned from the overview and a backlink result
\* whose total_backlinks is falsy, enhancedCompetitor.seoData.backlinks reads a
\* property of undefined: a TypeError.
SeoStep(e, o) ==
    LET domainData == getDomainOverview(o.overview)
        afterOverview ==
            IF domainData.found
              THEN [e EXCEPT !.seoData =
                      [e.seoData EXCEPT
                         !.traffic = OrDefault(domainData.organic_traffic_monthly, 0),
                         !.keywords = OrDefault(domainData.organic_keywords_count, 0),
                         !.backlinks = OrDefault(domainData.backlinks_count, 0)]]
              ELSE e
        backlinkData == getBacklinkData(o.backlinks)
    IN  IF ~SeoReached(e) THEN [threw |-> FALSE, value |-> e]
        ELSE IF ~backlinkData.found THEN [threw |-> FALSE, value |-> afterOverview]
        ELSE IF Truthy(backlinkData.total_backlinks)
          THEN [threw |-> FALSE,
                value |-> [afterOverview EXCEPT
                             !.seoData.backlinks = backlinkData.total_backlinks]]
        ELSE IF afterOverview.seoData = NoSeoData
          THEN [threw |-> TRUE, value |-> afterOverview]
        ELSE [threw |-> FALSE,
              value |-> [afterOverview EXCEPT
                           !.seoData.backlinks =
                               OrDefault(afterOverview.seoData.backlinks, 0)]]

\* try { ... } catch (seoError) { console.error(...) }
SeoTry(e, o) == SeoStep(e, o).value

\* The content block runs for an entity with a url that lacks a score
ContentReached(e) ==
    e.url # "" /\ (~Truthy(e.expertiseScore) \/ ~Truthy(e.authorityScore))

\* Math.round((contentQualityScore + trustScore) / 2); NaN when one is absent
AiCommunicationScore(aiAnalysis) ==
    IF aiAnalysis.contentQualityScore = Undefined \/ aiAnalysis.trustScore = Undefined
      THEN Undefined
      ELSE RoundDiv(aiAnalysis.contentQualityScore + aiAnalysis.trustScore, 2)

\* The body of the content try block: the entity at its end, or at the point
\* it threw (the rejection of getWebsiteContent)
ContentStep(e, o) ==
    LET aiAnalysis == analyzeContentWithAI(o.ai)
        analysis == analyzeAuthorityIndex
        scored ==
            IF aiAnalysis.found
              THEN [e EXCEPT !.expertiseScore = aiAnalysis.expertiseScore,
                             !.authorityScore = aiAnalysis.authorityScore,
                             !.communicationScore = AiCommunicationScore(aiAnalysis),
                             !.hasAiAnalysis = TRUE]
              ELSE [e EXCEPT !.expertiseScore = analysis.expertiseSignals,
                             !.authorityScore = analysis.digitalAuthority,
                             !.communicationScore = analysis.consistencyMarkers]
    IN  IF ~ContentReached(e) THEN [threw |-> FALSE, value |-> e]
        ELSE IF o.content = "rejects" THEN [threw |-> TRUE, value |-> e]
        ELSE IF o.content # "long" THEN [threw |-> FALSE, value |-> e]
        ELSE [threw |-> FALSE,
              value |-> [scored EXCEPT
                           !.position = determineMarketPosition2(
                                            scored.expertiseScore, scored.authorityScore),
                           !.hasAnalysis = "yes"]]

\* try { ... } catch (analysisError) { ...; enhancedCompetitor.hasAnalysis = false }
ContentTry(e, o) ==
    LET r == ContentStep(e, o)
    IN  IF r.threw THEN [r.value EXCEPT !.hasAnalysis = "no"] ELSE r.value

\* The scores are generated when one is still missing
FallbackReached(e) == ~Truthy(e.expertiseScore) \/ ~Truthy(e.authorityScore)

\* The generated scores without the branch on the Places rating (a mutant of
\* FallbackScores)
FallbackScoresUnrated(e, u) ==
    LET generated == [e EXCEPT
                        !.expertiseScore = 40 + RoundDiv(u * 40, 100),
                        !.authorityScore = 40 + RoundDiv(u * 40, 100),
                        !.communicationScore = 40 + RoundDiv(u * 30, 100),
                        !.isEstimated = TRUE]
    IN  IF ~Truthy(e.expertiseScore) \/ ~Truthy(e.authorityScore)
          THEN [generated EXCEPT
                  !.position = determineMarketPosition2(
                                   generated.expertiseScore, generated.authorityScore)]
          ELSE e

\* "If we still don't have scores, generate plausible ones"
FallbackScores(e, u) ==
    LET rated == Truthy(e.googleData.rating)
        generated ==
            IF rated
              THEN [e EXCEPT
                      !.expertiseScore = 50 + RoundDiv(u * 30, 100),
                      !.authorityScore = 50 + RoundDiv(e.googleData.rating * 30, 500),
                      !.communicationScore = 45 + RoundDiv(u * 25, 100),
                      !.isEstimated = TRUE]
              ELSE [e EXCEPT
                      !.expertiseScore = 40 + RoundDiv(u * 40, 100),
                      !.authorityScore = 40 + RoundDiv(u * 40, 100),
                      !.communicationScore = 40 + RoundDiv(u * 30, 100),
                      !.isEstimated = TRUE]
    IN  IF FallbackReached(e)
          THEN [generated EXCEPT
                  !.position = determineMarketPosition2(
                                   generated.expertiseScore, generated.authorityScore)]
          ELSE e

mapScoreToLabel(score) ==
    IF score >= 80 THEN "HIGH"
    ELSE IF score >= 60 THEN "MEDIUM"
    ELSE IF score >= 40 THEN "LOW"
    ELSE "POOR"

\* The weights 0.4, 0.3 and 0.3 written into the blend of enhanceCompetitorData
enhancementWeights ==
    [expertise |-> 400, authority |-> 300, communication |-> 300]

\* Math.round(expertiseScore * 0.4 + authorityScore * 0.3 + communicationScore * 0.3);
\* NaN (held as Undefined) when a score is absent
CredibilityScore(e) ==
    IF e.expertiseScore = Undefined \/ e.authorityScore = Undefined
         \/ e.communicationScore = Undefined
      THEN Undefined
      ELSE RoundDiv(enhancementWeights.expertise * e.expertiseScore
                      + enhancementWeights.authority * e.authorityScore
                      + enhancementWeights.communication * e.communicationScore,
                    WeightScale)

\* credibilityScore and scoreLabels
ScoreSummary(e) ==
    LET credibility == CredibilityScore(e)
    IN  [e EXCEPT
           !.credibilityScore = credibility,
           !.scoreLabels = [overall |-> mapScoreToLabel(credibility),
                            expertise |-> mapScoreToLabel(e.expertiseScore),
                            audienceTrust |-> mapScoreToLabel(e.authorityScore),
                            communication |-> mapScoreToLabel(e.communicationScore)]]

\* The function without its try blocks: an exception of a collaborator step
\* rejects the promise (a mutant of enhanceCompetitorData)
enhanceCompetitorDataUncaught(competitor, o) ==
    LET seo == SeoStep(PlacesStep(competitor, o), o)
        content == ContentStep(seo.value, o)
    IN  IF seo.threw \/ content.threw
          THEN [outcome |-> "rejected", value |-> competitor]
          ELSE [outcome |-> "resolved",
                value |-> ScoreSummary(FallbackScores(content.value, o.u))]

\* enhanceCompetitorData(competitor, industry, specialty) under the
\* collaborator outcomes o.  Each throwing step is inside its own try block,
\* and no statement outside them throws for an entity record, so the outer
\* catch (return competitor) is not entered and the promise resolves.
enhanceCompetitorData(competitor, o) ==
    [outcome |-> "resolved",
     value |-> ScoreSummary(FallbackScores(
                   ContentTry(SeoTry(PlacesStep(competitor, o), o), o), o.u))]

\* The outcomes to draw for one call: those of the requests the call makes
\* (the details request follows a found place, the classifier a long page)
ReachedOutcomes(competitor) ==
    LET placesReached == PlacesReached(competitor)
        seoReached == SeoReached(competitor)
        contentReached == ContentReached(competitor)
    IN  {o \in [places : IF placesReached THEN PlacesOutcomes ELSE {"none"},
                details : DetailsOutcomes,
                overview : IF seoReached THEN OverviewOutcomes ELSE {"throws"},
                backlinks : IF seoReached THEN BacklinkOutcomes ELSE {"throws"},
                content : IF contentReached THEN ContentOutcomes ELSE {"rejects"},
                ai : AiOutcomes,
                u : IF FallbackReached(competitor) THEN RandomDraws ELSE {0}] :
            /\ o.places # "found" => o.details = "throws"
            /\ (~contentReached \/ o.content # "long") => o.ai = "unconfigured"}

\* One pass of the loop of processCompetitors: the list after the push
\* (the catch pushes the competitor as it was given)
ProcessOne(enhanced, competitor, r) ==
    Append(enhanced, IF r.outcome = "resolved" THEN r.value ELSE competitor)

-----------------------------------------------------------------------------
(* content-fetcher: fetchCompetitorsFromDataForSEO *)

\* The competitor object built for the j-th domain kept from the response:
\* name, url and the metrics of the response (0 where the response has none)
RealCompetitor(j) ==
    [BlankEntity EXCEPT
        !.name = 10 + j,
        !.url = "https://rival.com.au",
        !.seoData = IF j = 2
                      THEN [traffic |-> 0, socialFollowers |-> Undefined,
                            keywords |-> 0, backlinks |-> 0]
                      ELSE [traffic |-> 1200 * j, socialFollowers |-> Undefined,
                            keywords |-> 1200 * j, backlinks |-> 30 * j]]

\* fetchCompetitorsFromDataForSEO(domain, industry, limit, ...): [] when the
\* credentials are missing, the request throws or the response holds no
\* result; otherwise the competitors built from the response.kept domains
\* that pass the filters, the loop stopping at limit
fetchCompetitorsFromDataForSEO(response, limit) ==
    IF response.status = "items"
      THEN [j \in 1..Min(limit, response.kept) |-> RealCompetitor(j)]
      ELSE <<>>

-----------------------------------------------------------------------------
(* The variables of a component that a specification does not exercise *)

ClassIdle ==
    /\ peers = <<>>
    /\ expertiseThreshold = 0
    /\ authorityThreshold = 0
    /\ position = ""

GenIdle ==
    /\ userData = [expertiseScore |-> Undefined, authorityScore |-> Undefined,
                   location |-> "", domain |-> NoDomain, specialty |-> "",
                   credibilityScore |-> Undefined]
    /\ specialty = ""
    /\ count = 0
    /\ simulatedCompetitors = <<>>
    /\ outcome = ""

LayoutIdle ==
    /\ competitorList = <<>>
    /\ chartDimensions = [width |-> 800, height |-> 600]
    /\ positionedCompetitors = <<>>
    /\ searches = <<>>

PipelineIdle ==
    /\ insights = <<>>
    /\ enhancedCompetitors = <<>>
    /\ settled = <<>>
    /\ subjectDomain = NoDomain
    /\ findOutcome = ""

EngineIdle ==
    /\ analysisData = NoAnalysis
    /\ weights = NoWeights
    /\ credibilityWeights = NoWeights
    /\ adjustedWeights = NoWeights
    /\ finalScore = Undefined

FetcherIdle ==
    /\ fetchUrl = ""
    /\ retries = 0
    /\ fetchLog = <<>>
    /\ waitTimes = <<>>
    /\ fetchResult = NotSettled

AnalyzerIdle ==
    /\ OPENAI_API_KEY = ""
    /\ contentSample = 0
    /\ aiRetries = 0
    /\ aiRequests = <<>>
    /\ aiWaits = <<>>
    /\ aiResult = AnalysisPending

-----------------------------------------------------------------------------
(* Specification SpecCurve: applyCurve applied to a pair of scores *)

Scores == 0..100

InitCurve ==
    /\ EngineIdle
    /\ FetcherIdle
    /\ AnalyzerIdle
    /\ pc = "curve"
    /\ industry = ""
    /\ expertiseScore \in Scores
    /\ authorityScore \in Scores
    /\ curvedExpertise = Undefined
    /\ curvedAuthority = Undefined
    /\ ClassIdle
    /\ GenIdle
    /\ LayoutIdle
    /\ PipelineIdle

\* const curvedExpertise = applyCurve(expertiseScore);
\* const curvedAuthority = applyCurve(authorityScore);
CurveScores ==
    /\ pc = "curve"
    /\ curvedExpertise' = applyCurve(expertiseScore)
    /\ curvedAuthority' = applyCurve(authorityScore)
    /\ pc' = "curved"
    /\ UNCHANGED <<engineVars, fetcherVars, analyzerVars,
                   industry, expertiseScore, authorityScore, peers,
                   expertiseThreshold, authorityThreshold, position, genVars,
                   layoutVars, pipelineVars>>

NextCurve == CurveScores

SpecCurve == InitCurve /\ [][NextCurve]_vars

\* C6: applyCurve is monotonic non-decreasing on the integer scores 0..100:
\* whenever the first score is at most the second, so are their curved values.
CurveMonotonic ==
    (pc = "curved" /\ expertiseScore <= authorityScore)
        => curvedExpertise <= curvedAuthority

\* C14: for every integer score in 0..100 applyCurve returns an integer in
\* 0..100, and it maps 0 to 0 and 100 to 100.
CurveRange ==
    pc = "curved" =>
        /\ curvedExpertise \in 0..100
        /\ curvedAuthority \in 0..100
        /\ expertiseScore = 0 => curvedExpertise = 0
        /\ expertiseScore = 100 => curvedExpertise = 100
        /\ authorityScore = 0 => curvedAuthority = 0
        /\ authorityScore = 100 => curvedAuthority = 100

CurveRangeWitness ==
    /\ pc = "curved"
    /\ expertiseScore = 100 /\ curvedExpertise = 100
    /\ authorityScore = 0 /\ curvedAuthority = 0

\* C15: the band boundaries 40 and 70 are fixed points of applyCurve.
CurveBoundariesFixed ==
    pc = "curved" =>
        /\ expertiseScore \in {40, 70} => curvedExpertise = expertiseScore
        /\ authorityScore \in {40, 70} => curvedAuthority = authorityScore

-----------------------------------------------------------------------------
(* Specification SpecClassify: one call of determineMarketPosition *)

MaxPeers == 3

\* Scores the classifier is called with: the ends, the band boundaries of the
\* curve and the neighbourhood of every reachable threshold.
ClassifyScores == {0, 39, 40, 66, 70, 71, 75, 76, 80, 100}

\* Peers, one of them without scores, one with a zero score, and one whose
\* expertiseScore blends with a threshold of 68 to an exact half (57.5)
PeerRecords ==
    {[expertiseScore |-> Undefined, authorityScore |-> Undefined],
     [expertiseScore |-> 20, authorityScore |-> 0],
     [expertiseScore |-> 53, authorityScore |-> 70],
     [expertiseScore |-> 95, authorityScore |-> 40]}

PeerLists == UNION {[1..n -> PeerRecords] : n \in 0..MaxPeers}

InitClassify ==
    /\ EngineIdle
    /\ FetcherIdle
    /\ AnalyzerIdle
    /\ pc = "classify"
    /\ industry \in Industries
    /\ expertiseScore \in ClassifyScores
    /\ authorityScore \in ClassifyScores
    /\ peers \in PeerLists
    /\ expertiseThreshold = 0
    /\ authorityThreshold = 0
    /\ curvedExpertise = Undefined
    /\ curvedAuthority = Undefined
    /\ position = ""
    /\ GenIdle
    /\ LayoutIdle
    /\ PipelineIdle

\* determineMarketPosition(expertiseScore, authorityScore, peers, industry)
DetermineMarketPosition ==
    /\ pc = "classify"
    /\ expertiseThreshold' = Thresholds(peers, industry).expertise
    /\ authorityThreshold' = Thresholds(peers, industry).authority
    /\ curvedExpertise' = applyCurve(expertiseScore)
    /\ curvedAuthority' = applyCurve(authorityScore)
    /\ position' = determineMarketPosition(expertiseScore, authorityScore, peers, industry)
    /\ pc' = "classified"
    /\ UNCHANGED <<engineVars, fetcherVars, analyzerVars,
                   industry, expertiseScore, authorityScore, peers, genVars,
                   layoutVars, pipelineVars>>

NextClassify == DetermineMarketPosition

SpecClassify == InitClassify /\ [][NextClassify]_vars

\* C7: for all scores, every peer list (peers possibly without scores) and
\* every industry, determineMarketPosition returns one of the four labels.
ClassifyReturnsALabel == pc = "classified" => position \in Labels

\* C7 witness: a call with three peers, one of them without scores, in a
\* recognised industry has returned.
ClassifyReturnsALabelWitness ==
    /\ pc = "classified"
    /\ Len(peers) >= 3
    /\ \E k \in 1..Len(peers) : peers[k].expertiseScore = Undefined
    /\ industry \in KnownIndustries
    /\ position = HIDDEN_EXPERT

\* C16: with no peers and no industry, determineMarketPosition(e, a) is
\* HIDDEN EXPERT exactly when determineMarketPosition(a, e) is VISIBILITY
\* WITHOUT SUBSTANCE.
ClassifySwapFlips ==
    (pc = "classified" /\ peers = <<>> /\ industry = "") =>
        (position = HIDDEN_EXPERT
            <=> determineMarketPosition(authorityScore, expertiseScore, <<>>, "")
                    = VISIBILITY_WITHOUT_SUBSTANCE)

IsPercentile(v, scores) ==
    LET n == Len(scores)
        index == (7 * n) \div 10
        below == Cardinality({k \in 1..n : scores[k] < v})
        atOrBelow == Cardinality({k \in 1..n : scores[k] <= v})
    IN  below <= index /\ index < atOrBelow

\* threshold is an integer nearest to 0.3 * adjusted + 0.7 * p for the
\* percentile p of the scores
IsBlendOf(threshold, adjusted, scores) ==
    \E k \in 1..Len(scores) :
        /\ IsPercentile(scores[k], scores)
        /\ 10 * threshold - (3 * adjusted + 7 * scores[k]) \in -5..5

ThresholdsKeptApart ==
    pc = "classified" =>
        expertiseThreshold - authorityThreshold \notin -4..4

\* C29: for fixed authority score, peers and industry, when the call returned
\* a high-expertise label (VERIFIED EXPERT or HIDDEN EXPERT) the call with any
\* greater expertise score returns a high-expertise label too; likewise for
\* a greater authority score and the high-authority labels (VERIFIED EXPERT
\* or VISIBILITY WITHOUT SUBSTANCE).
ClassifyMonotone ==
    pc = "classified" =>
        /\ position \in {VERIFIED_EXPERT, HIDDEN_EXPERT} =>
              \A e2 \in ClassifyScores :
                  expertiseScore <= e2 =>
                      determineMarketPosition(e2, authorityScore, peers, industry)
                          \in {VERIFIED_EXPERT, HIDDEN_EXPERT}
        /\ position \in {VERIFIED_EXPERT, VISIBILITY_WITHOUT_SUBSTANCE} =>
              \A a2 \in ClassifyScores :
                  authorityScore <= a2 =>
                      determineMarketPosition(expertiseScore, a2, peers, industry)
                          \in {VERIFIED_EXPERT, VISIBILITY_WITHOUT_SUBSTANCE}

-----------------------------------------------------------------------------
(* Specification SpecGenerate: one call of generateSimulatedCompetitors *)

MaxCount == 3

\* The random outcomes of one loop iteration: the results of
\* generateScoreWithDistribution at their least (38) and greatest (83) values
\* in each combination of expertise and authority, and one draw that equals
\* the default subject (60, 50); the unit draw u at its least, middle and
\* (nearly) greatest values.
Draws ==
    {[expertise |-> 38, authority |-> 38, consistency |-> 38, u |-> 0,
      exactLocation |-> TRUE],
     [expertise |-> 83, authority |-> 38, consistency |-> 60, u |-> 99,
      exactLocation |-> FALSE],
     [expertise |-> 38, authority |-> 83, consistency |-> 83, u |-> 0,
      exactLocation |-> FALSE],
     [expertise |-> 83, authority |-> 83, consistency |-> 38, u |-> 99,
      exactLocation |-> TRUE],
     [expertise |-> 60, authority |-> 50, consistency |-> 60, u |-> 50,
      exactLocation |-> FALSE]}

\* The random outcomes of the top-competitor block: Math.random() > 0.5 and
\* the least and greatest values of Math.floor(Math.random() * 15) + 5
BossDraws == [raiseExpertise : BOOLEAN, bump : {5, 19}]

RandomOutcomes(n) == [draws : [1..n -> Draws], boss : BossDraws]

\* Subject records: scores absent, zero, mid-range and at the top; a record
\* carrying only its scores, one with a plain domain, one whose domain names a
\* city and one with a location
Subjects ==
    {u \in [expertiseScore : {Undefined, 0, 60, 100},
            authorityScore : {Undefined, 50, 100},
            location : {"", "Melbourne, VIC"},
            domain : {NoDomain, "acme_com_au", "sydneyroofing_com_au"},
            specialty : {""}, credibilityScore : {Undefined}] :
        u.location # "" => u.domain = NoDomain}

InitGenerate ==
    /\ EngineIdle
    /\ FetcherIdle
    /\ AnalyzerIdle
    /\ pc = "generate"
    /\ industry \in {"Construction", "Retail"}
    /\ userData \in Subjects
    /\ specialty \in {"", "Dental"}
    /\ count \in 1..MaxCount
    /\ simulatedCompetitors = <<>>
    /\ outcome = ""
    /\ expertiseScore = Undefined
    /\ authorityScore = Undefined
    /\ curvedExpertise = Undefined
    /\ curvedAuthority = Undefined
    /\ ClassIdle
    /\ LayoutIdle
    /\ PipelineIdle

\* generateSimulatedCompetitors(industry, specialty, userData, count)
Generate ==
    /\ pc = "generate"
    /\ \E rnd \in RandomOutcomes(count) :
         LET r == generateSimulatedCompetitors(industry, specialty, userData, count, rnd)
         IN  /\ simulatedCompetitors' = r.value
             /\ outcome' = r.outcome
    /\ pc' = "generated"
    /\ UNCHANGED <<engineVars, fetcherVars, analyzerVars,
                   industry, classVars, userData, specialty, count, layoutVars,
                   pipelineVars>>

NextGenerate == Generate

SpecGenerate == InitGenerate /\ [][NextGenerate]_vars

SpecExampleReturns ==
    (/\ pc = "generated"
     /\ userData.expertiseScore = 60
     /\ userData.authorityScore = 50
     /\ userData.location = ""
     /\ userData.domain = NoDomain
     /\ industry = "Construction"
     /\ specialty = ""
     /\ count = 3) =>
        /\ outcome = "returned"
        /\ Len(simulatedCompetitors) = 3
        /\ simulatedCompetitors[1].isBoss
        /\ \/ simulatedCompetitors[1].expertiseScore > 60
           \/ simulatedCompetitors[1].authorityScore > 50

\* C5: for every subject with both scores in 0..100 and every random outcome,
\* the boss of a returned batch has expertiseScore >= the subject's or
\* authorityScore >= the subject's.
BossOutranksSubject ==
    (/\ pc = "generated"
     /\ outcome = "returned"
     /\ userData.expertiseScore \in 0..100
     /\ userData.authorityScore \in 0..100) =>
        \/ simulatedCompetitors[1].expertiseScore >= userData.expertiseScore
        \/ simulatedCompetitors[1].authorityScore >= userData.authorityScore

-----------------------------------------------------------------------------
(* Specification SpecLayout: one call of calculateCompetitorPositions *)

MaxEntities == 3

\* Canvases: the default one and one of half its size
Canvases == {[width |-> 800, height |-> 600], [width |-> 400, height |-> 300]}

\* Entities given to the layout: the centre of the chart, neighbours of it
\* within one circle's reach, the corners the generator's clamp allows
\* (30 and 95), a boss, an entity with zero scores and no label, and one
\* whose scores are among those of FloatFloorDownX and FloatFloorDownY.
LayoutEntities ==
    {[BlankEntity EXCEPT !.expertiseScore = 50, !.authorityScore = 50,
                         !.position = LOW_PROFILE],
     [BlankEntity EXCEPT !.expertiseScore = 50, !.authorityScore = 60,
                         !.position = LOW_PROFILE],
     [BlankEntity EXCEPT !.expertiseScore = 83, !.authorityScore = 38,
                         !.position = HIDDEN_EXPERT],
     [BlankEntity EXCEPT !.expertiseScore = 95, !.authorityScore = 95,
                         !.position = VERIFIED_EXPERT, !.isBoss = TRUE],
     [BlankEntity EXCEPT !.expertiseScore = 75, !.authorityScore = 80,
                         !.position = VERIFIED_EXPERT],
     [BlankEntity EXCEPT !.expertiseScore = 0, !.authorityScore = 0],
     [BlankEntity EXCEPT !.expertiseScore = 80, !.authorityScore = 57,
                         !.position = HIDDEN_EXPERT]}

InitLayout ==
    /\ EngineIdle
    /\ FetcherIdle
    /\ AnalyzerIdle
    /\ pc = "layout"
    /\ industry = ""
    /\ competitorList \in UNION {[1..n -> LayoutEntities] : n \in 1..MaxEntities}
    /\ chartDimensions \in Canvases
    /\ positionedCompetitors = <<>>
    /\ searches = <<>>
    /\ expertiseScore = Undefined
    /\ authorityScore = Undefined
    /\ curvedExpertise = Undefined
    /\ curvedAuthority = Undefined
    /\ ClassIdle
    /\ GenIdle
    /\ PipelineIdle

\* calculateCompetitorPositions(competitorList, chartDimensions)
Layout ==
    /\ pc = "layout"
    /\ LET list == [k \in 1..Len(competitorList) |-> ToLayoutScale(competitorList[k])]
       IN  /\ positionedCompetitors' = calculateCompetitorPositions(list, chartDimensions)
           /\ searches' = LayoutSearches(list, chartDimensions)
    /\ pc' = "positioned"
    /\ UNCHANGED <<engineVars, fetcherVars, analyzerVars,
                   industry, classVars, genVars, competitorList, chartDimensions,
                   pipelineVars>>

NextLayout == Layout

SpecLayout == InitLayout /\ [][NextLayout]_vars

\* C1: every chartPosition produced by calculateCompetitorPositions satisfies
\* radius+40 <= x <= width-radius-40 and radius+40 <= y <= height-radius-40,
\* also when the 50-attempt search is exhausted.
CirclesWithinMargins ==
    pc = "positioned" =>
        \A k \in 1..Len(positionedCompetitors) :
            LET cp == positionedCompetitors[k].chartPosition
                borderPadding == cp.radius + borderMargin * PixelScale
            IN  /\ borderPadding <= cp.x
                /\ cp.x <= chartDimensions.width * PixelScale - borderPadding
                /\ borderPadding <= cp.y
                /\ cp.y <= chartDimensions.height * PixelScale - borderPadding

\* C2: any two entities of the result, the later-placed of which left its
\* search loop with a candidate that was not rejected, have their centres at
\* least the sum of their radii plus 15 apart.
PlacedCirclesApart ==
    pc = "positioned" =>
        \A j, k \in 1..Len(positionedCompetitors) :
            (j < k /\ ~searches[k].isOverlapping) =>
                ~TooClose(positionedCompetitors[k].chartPosition.x,
                          positionedCompetitors[k].chartPosition.y,
                          positionedCompetitors[k].chartPosition.radius,
                          positionedCompetitors[j].chartPosition)

\* C2 witness: a later entity was moved off its mapped position by the
\* spiral and then accepted
PlacedCirclesApartWitness ==
    /\ pc = "positioned"
    /\ \E k \in 2..Len(positionedCompetitors) :
          /\ ~searches[k].isOverlapping
          /\ searches[k].attempts > 0

\* C19: every circle has radius 48 when its entity has isBoss and 40
\* otherwise; an entity whose mapped pixel position
\* (floor(authority/100 * width), floor((1 - expertise/100) * height)) keeps
\* radius+40 from every edge and is clear of every earlier circle is placed
\* exactly there; a lone entity scored 50/50 on an 800x600 canvas gets
\* x = 400, y = 300, radius = 40.
PlacedAtMappedPosition ==
    pc = "positioned" =>
        /\ \A k \in 1..Len(positionedCompetitors) :
              LET e == positionedCompetitors[k]
                  cp == e.chartPosition
                  mappedX == FloorDiv(e.authorityScore * chartDimensions.width,
                                      100 * ScoreScale) * PixelScale
                  mappedY == FloorDiv((100 * ScoreScale - e.expertiseScore)
                                        * chartDimensions.height,
                                      100 * ScoreScale) * PixelScale
                  margin == cp.radius + 40 * PixelScale
                  inside ==
                      /\ margin <= mappedX
                      /\ mappedX <= chartDimensions.width * PixelScale - margin
                      /\ margin <= mappedY
                      /\ mappedY <= chartDimensions.height * PixelScale - margin
                  clear ==
                      \A j \in 1..(k - 1) :
                          LET earlier == positionedCompetitors[j].chartPosition
                              apart == cp.radius + earlier.radius + 15 * PixelScale
                              dx == Abs(mappedX - earlier.x)
                              dy == Abs(mappedY - earlier.y)
                          IN  \/ dx >= apart
                              \/ dy >= apart
                              \/ dx * dx + dy * dy >= apart * apart
              IN  /\ cp.radius = (IF e.isBoss THEN 48 ELSE 40) * PixelScale
                  /\ (inside /\ clear) => (cp.x = mappedX /\ cp.y = mappedY)
        /\ (/\ Len(competitorList) = 1
            /\ competitorList[1].expertiseScore = 50
            /\ competitorList[1].authorityScore = 50
            /\ chartDimensions = [width |-> 800, height |-> 600])
              => positionedCompetitors[1].chartPosition =
                     [x |-> 400 * PixelScale, y |-> 300 * PixelScale,
                      radius |-> 40 * PixelScale]

\* C25: the dispersion pre-pass nudges every entity at index > 0 of a
\* quadrant group of more than one entity toward the outer corner of its
\* quadrant on both axes: its authorityScore does not decrease in a
\* high-authority quadrant and does not increase in a low-authority one, and
\* likewise its expertiseScore.  (Stated for scores within 30..95, which the
\* clamp that follows leaves alone.)
DispersionOutward ==
    pc = "positioned" =>
        \A k \in 1..Len(competitorList) :
            LET given == competitorList[k]
                returned == positionedCompetitors[k]
                quadrant == given.position
                group == {j \in 1..Len(competitorList) :
                             competitorList[j].position = quadrant}
                index == Cardinality({j \in group : j < k})
                highExpertise == quadrant \in {VERIFIED_EXPERT, HIDDEN_EXPERT}
                highAuthority == quadrant \in {VERIFIED_EXPERT,
                                               VISIBILITY_WITHOUT_SUBSTANCE}
            IN  (/\ quadrant \in Labels
                 /\ Cardinality(group) > 1
                 /\ index > 0
                 /\ given.authorityScore \in 30..95
                 /\ given.expertiseScore \in 30..95)
                  => /\ highAuthority =>
                            returned.authorityScore >= given.authorityScore * ScoreScale
                     /\ ~highAuthority =>
                            returned.authorityScore <= given.authorityScore * ScoreScale
                     /\ highExpertise =>
                            returned.expertiseScore >= given.expertiseScore * ScoreScale
                     /\ ~highExpertise =>
                            returned.expertiseScore <= given.expertiseScore * ScoreScale

\* C28: calculateCompetitorPositions applied to its own output gives every
\* entity the chartPosition it had and leaves its expertiseScore and
\* authorityScore as they were after the first pass.
LayoutIdempotent ==
    pc = "positioned" =>
        LET again == calculateCompetitorPositions(positionedCompetitors,
                                                  chartDimensions)
        IN  \A k \in 1..Len(positionedCompetitors) :
                /\ again[k].chartPosition = positionedCompetitors[k].chartPosition
                /\ again[k].expertiseScore = positionedCompetitors[k].expertiseScore
                /\ again[k].authorityScore = positionedCompetitors[k].authorityScore

-----------------------------------------------------------------------------
(* Specification SpecInsights: one call of generateCompetitiveInsights *)

\* Competitors given to the insight generator: one with traffic and a weak
\* label, one with reviews only and neither scores nor label, a strong one
\* without any metric, one with followers and backlinks
InsightEntities ==
    {[BlankEntity EXCEPT !.name = 1, !.expertiseScore = 50, !.authorityScore = 50,
                         !.position = LOW_PROFILE,
                         !.seoData = [traffic |-> 5000, socialFollowers |-> Undefined,
                                      keywords |-> 100, backlinks |-> 10]],
     [BlankEntity EXCEPT !.name = 2,
                         !.googleData = [rating |-> 450, userRatingsTotal |-> 40]],
     [BlankEntity EXCEPT !.name = 3, !.expertiseScore = 90, !.authorityScore = 85,
                         !.position = VERIFIED_EXPERT],
     [BlankEntity EXCEPT !.name = 4, !.expertiseScore = 75, !.authorityScore = 40,
                         !.position = HIDDEN_EXPERT,
                         !.seoData = [traffic |-> 0, socialFollowers |-> 600,
                                      keywords |-> 0, backlinks |-> 60]]}

\* Subjects of the insight generator
InsightSubjects ==
    [expertiseScore : {Undefined, 50, 70}, authorityScore : {Undefined, 40, 45, 60},
     location : {""}, domain : {"acme_com_au"},
     specialty : {"", "Plastic Surgery"}, credibilityScore : {Undefined, 90}]

InitInsights ==
    /\ EngineIdle
    /\ FetcherIdle
    /\ AnalyzerIdle
    /\ pc = "insights"
    /\ industry \in {"Healthcare", "Construction", "Retail"}
    /\ userData \in InsightSubjects
    /\ competitorList \in UNION {[1..n -> InsightEntities] : n \in 0..MaxEntities}
    /\ insights = <<>>
    /\ expertiseScore = Undefined
    /\ authorityScore = Undefined
    /\ curvedExpertise = Undefined
    /\ curvedAuthority = Undefined
    /\ ClassIdle
    /\ specialty = ""
    /\ count = 0
    /\ simulatedCompetitors = <<>>
    /\ outcome = ""
    /\ chartDimensions = [width |-> 800, height |-> 600]
    /\ positionedCompetitors = <<>>
    /\ searches = <<>>
    /\ enhancedCompetitors = <<>>
    /\ settled = <<>>
    /\ subjectDomain = NoDomain
    /\ findOutcome = ""

\* generateCompetitiveInsights(userData, competitorList, industry)
GenerateInsights ==
    /\ pc = "insights"
    /\ insights' = generateCompetitiveInsights(userData, competitorList, industry)
    /\ competitorList' = MarkedCompetitors(competitorList)
    /\ pc' = "insighted"
    /\ UNCHANGED <<engineVars, fetcherVars, analyzerVars,
                   industry, classVars, genVars, chartDimensions,
                   positionedCompetitors, searches, enhancedCompetitors,
                   settled, subjectDomain, findOutcome>>

NextInsights == GenerateInsights

SpecInsights == InitInsights /\ [][NextInsights]_vars

\* C8: generateCompetitiveInsights returns at most 3 insights, and whenever
\* the competitor list is non-empty the first insight has type 'competitor'.
AtMostThreeCompetitorFirst ==
    pc = "insighted" =>
        /\ Len(insights) <= 3
        /\ Len(competitorList) > 0 =>
              /\ Len(insights) >= 1
              /\ insights[1].type = "competitor"

\* C8 witness: a call with competitors for which five insights were pushed
\* (competitor, industry, regulation, hidden, average) and three returned
AtMostThreeCompetitorFirstWitness ==
    /\ pc = "insighted"
    /\ Len(competitorList) > 0
    /\ Len(PushedInsights(userData, competitorList, industry)) = 5
    /\ Len(insights) = 3
    /\ insights[1].type = "competitor"

\* C24: generateCompetitiveInsights is pure given its inputs: called again
\* with the same subject object, the same competitor list (as the first call
\* left it) and the same industry, it returns the list it returned first.
InsightsRepeatable ==
    pc = "insighted" =>
        generateCompetitiveInsights(userData, competitorList, industry) = insights

\* C27: whenever generateCompetitiveInsights moves a competitor that is LOW
\* PROFILE or without label to VERIFIED EXPERT, determineMarketPosition of
\* the expertiseScore and authorityScore the call leaves on it is VERIFIED
\* EXPERT.
RelabelAgreesWithScores ==
    [][\A k \in 1..Len(competitorList) :
          (/\ pc' = "insighted"
           /\ competitorList[k].position \in {LOW_PROFILE, ""}
           /\ competitorList'[k].position = VERIFIED_EXPERT)
          => determineMarketPosition2(competitorList'[k].expertiseScore,
                                      competitorList'[k].authorityScore)
                 = VERIFIED_EXPERT]_vars

-----------------------------------------------------------------------------
(* Specification SpecEnhance: one call of processCompetitors *)

MaxBatch == 2

\* Competitors given to processCompetitors: one as the competitor search
\* builds it, a simulated one, one with a url only, one with a url,
\* metrics and an expertiseScore but no authorityScore, a simulated boss
\* (scores 65/50 after its raise, labelled VERIFIED EXPERT by the generator),
\* and one scored 70/60 by an earlier analysis that carries no
\* communicationScore (the field enhanceCompetitorData reads; an entity that
\* holds its third score as consistencyScore is such an entity)
EnhanceInputs ==
    {RealCompetitor(1),
     NewCompetitor(1, "Construction", "", "",
                   [expertise |-> 60, authority |-> 50, consistency |-> 60,
                    u |-> 50, exactLocation |-> FALSE]),
     [BlankEntity EXCEPT !.url = "https://bare.com.au"],
     [BlankEntity EXCEPT !.url = "https://half.com.au", !.expertiseScore = 85,
                         !.seoData = [traffic |-> 400, socialFollowers |-> Undefined,
                                      keywords |-> 40, backlinks |-> 4]],
     GeneratedCompetitor(1, "Construction", "",
                         [expertiseScore |-> 60, authorityScore |-> 50], "",
                         [draws |-> <<[expertise |-> 60, authority |-> 50,
                                       consistency |-> 60, u |-> 50,
                                       exactLocation |-> FALSE]>>,
                          boss |-> [raiseExpertise |-> TRUE, bump |-> 5]]),
     [BlankEntity EXCEPT !.url = "https://scored.com.au",
                         !.expertiseScore = 70, !.authorityScore = 60,
                         !.position = LOW_PROFILE]}

InitEnhance ==
    /\ EngineIdle
    /\ FetcherIdle
    /\ AnalyzerIdle
    /\ pc = "process"
    /\ industry = "Construction"
    /\ competitorList \in UNION {[1..n -> EnhanceInputs] : n \in 0..MaxBatch}
    /\ enhancedCompetitors = <<>>
    /\ settled = <<>>
    /\ expertiseScore = Undefined
    /\ authorityScore = Undefined
    /\ curvedExpertise = Undefined
    /\ curvedAuthority = Undefined
    /\ ClassIdle
    /\ GenIdle
    /\ chartDimensions = [width |-> 800, height |-> 600]
    /\ positionedCompetitors = <<>>
    /\ searches = <<>>
    /\ insights = <<>>
    /\ subjectDomain = NoDomain
    /\ findOutcome = ""

\* processCompetitors: one pass of the for loop,
\* await enhanceCompetitorData(competitor, industry, specialty), the
\* collaborators' outcomes drawn from Outcomes(competitor)
EnhanceNextOf(Outcomes(_)) ==
    /\ pc = "process"
    /\ Len(enhancedCompetitors) < Len(competitorList)
    /\ LET competitor == competitorList[Len(enhancedCompetitors) + 1]
       IN  \E o \in Outcomes(competitor) :
              LET r == enhanceCompetitorData(competitor, o)
              IN  /\ enhancedCompetitors' = ProcessOne(enhancedCompetitors, competitor, r)
                  /\ settled' = Append(settled, r.outcome)
    /\ UNCHANGED <<engineVars, fetcherVars, analyzerVars,
                   pc, industry, classVars, genVars, layoutVars, insights,
                   subjectDomain, findOutcome>>

EnhanceNext == EnhanceNextOf(ReachedOutcomes)

\* processCompetitors: return enhancedCompetitors
ProcessReturn ==
    /\ pc = "process"
    /\ Len(enhancedCompetitors) = Len(competitorList)
    /\ pc' = "processed"
    /\ UNCHANGED <<engineVars, fetcherVars, analyzerVars,
                   industry, classVars, genVars, layoutVars, pipelineVars>>

NextEnhance == EnhanceNext \/ ProcessReturn

SpecEnhance == InitEnhance /\ [][NextEnhance]_vars

\* C9: whatever the collaborators do, every call of enhanceCompetitorData
\* resolves with an entity, and processCompetitors on N competitors returns a
\* list of exactly N entities.
EnhanceNeverRejects ==
    /\ \A k \in 1..Len(settled) : settled[k] = "resolved"
    /\ pc = "processed" => Len(enhancedCompetitors) = Len(competitorList)

\* C9 witness: a returned batch of two or more in which the content fetch of
\* one competitor rejected and another competitor was analysed
EnhanceNeverRejectsWitness ==
    /\ pc = "processed"
    /\ Len(enhancedCompetitors) >= 2
    /\ \E j, k \in 1..Len(enhancedCompetitors) :
          /\ enhancedCompetitors[j].hasAnalysis = "no"
          /\ enhancedCompetitors[k].hasAnalysis = "yes"

\* C11: enhanceCompetitorData never overwrites a field that was non-empty on
\* the input entity: each of expertiseScore, authorityScore, googleData,
\* seoData and location present on input has the same value on the returned
\* entity, also when only one of the two scores was missing.
EnhanceKeepsPresentFields ==
    \A k \in 1..Len(enhancedCompetitors) :
        LET given == competitorList[k]
            returned == enhancedCompetitors[k]
        IN  /\ Truthy(given.expertiseScore) =>
                  returned.expertiseScore = given.expertiseScore
            /\ Truthy(given.authorityScore) =>
                  returned.authorityScore = given.authorityScore
            /\ given.googleData # NoGoogleData =>
                  returned.googleData = given.googleData
            /\ given.seoData # NoSeoData => returned.seoData = given.seoData
            /\ given.location # "" => returned.location = given.location

\* C12: on every normal return of enhanceCompetitorData the returned position
\* equals determineMarketPosition of the returned expertiseScore and
\* authorityScore, also for entities that arrive with scores and a position.
EnhancePositionFromScores ==
    \A k \in 1..Len(enhancedCompetitors) :
        settled[k] = "resolved" =>
            enhancedCompetitors[k].position =
                determineMarketPosition2(enhancedCompetitors[k].expertiseScore,
                                         enhancedCompetitors[k].authorityScore)

\* C13: on every normal return of enhanceCompetitorData the credibilityScore
\* is a number in [0,100] equal to round(0.4*expertise + 0.3*authority +
\* 0.3*consistency) of the returned scores, the consistency score being given
\* on input or synthesized when absent.
EnhanceCredibilityBlend ==
    \A k \in 1..Len(enhancedCompetitors) :
        settled[k] = "resolved" =>
            LET returned == enhancedCompetitors[k]
            IN  /\ returned.credibilityScore \in 0..100
                /\ returned.communicationScore \in 0..100
                /\ returned.credibilityScore =
                       RoundDiv(4 * returned.expertiseScore
                                + 3 * returned.authorityScore
                                + 3 * returned.communicationScore, 10)

\* C20: an entity with a url that lacks expertiseScore or authorityScore and
\* whose content fetch failed (it rejected, or yielded no more than 100
\* characters, so that no analysis was made) is still returned normally, with
\* both scores set and isEstimated true: authorityScore is
\* 50 + round(rating/5 * 30) when a Places rating is known, otherwise both
\* scores lie in 40..80.
EnhanceEstimatesAfterFailedFetch ==
    \A k \in 1..Len(enhancedCompetitors) :
        LET given == competitorList[k]
            returned == enhancedCompetitors[k]
            rating == returned.googleData.rating
        IN  (/\ given.url # ""
             /\ ~Truthy(given.expertiseScore) \/ ~Truthy(given.authorityScore)
             /\ returned.hasAnalysis # "yes")
              => /\ settled[k] = "resolved"
                 /\ returned.isEstimated
                 /\ returned.expertiseScore \in 0..100
                 /\ returned.authorityScore \in 0..100
                 /\ Truthy(rating) =>
                        returned.authorityScore = 50 + RoundDiv(rating * 30, 500)
                 /\ ~Truthy(rating) =>
                        /\ returned.expertiseScore \in 40..80
                        /\ returned.authorityScore \in 40..80

\* C20 witness: the content fetch of an entity rejected, and it was returned
\* with an authorityScore estimated from its Places rating; another entity
\* was returned with scores estimated without a rating.
EnhanceEstimatesAfterFailedFetchWitness ==
    /\ \E k \in 1..Len(enhancedCompetitors) :
          /\ competitorList[k].url # ""
          /\ ~Truthy(competitorList[k].authorityScore)
          /\ enhancedCompetitors[k].hasAnalysis = "no"
          /\ enhancedCompetitors[k].googleData.rating = 450
          /\ enhancedCompetitors[k].isEstimated
          /\ enhancedCompetitors[k].authorityScore = 77
    /\ \E k \in 1..Len(enhancedCompetitors) :
          /\ competitorList[k].url # ""
          /\ ~Truthy(competitorList[k].authorityScore)
          /\ enhancedCompetitors[k].hasAnalysis # "yes"
          /\ ~Truthy(enhancedCompetitors[k].googleData.rating)
          /\ enhancedCompetitors[k].isEstimated
          /\ enhancedCompetitors[k].authorityScore \in {40, 80}

-----------------------------------------------------------------------------
(* Specification SpecWeights: the credibility weights of analysis-engine.js,
   one call of getIndustryWeights and one of calculateCredibilityScore *)

\* The keys of both tables ("Real Estate" is written RealEstate), the empty
\* string, an industry in neither table and an inherited key.
WeightIndustries ==
    DOMAIN scoreWeightAdjustments \cup DOMAIN industryWeights
        \cup {"", "Retail"} \cup InheritedKeys

\* Component scores: absent, zero, and values more and less than 20 apart
AnalysisScores == {Undefined, 0, 30, 55, 80, 100}

InitWeights ==
    /\ pc = "weights"
    /\ industry \in WeightIndustries
    /\ analysisData \in [expertiseScore : AnalysisScores,
                         authorityScore : AnalysisScores,
                         communicationScore : AnalysisScores]
    /\ weights = NoWeights
    /\ credibilityWeights = NoWeights
    /\ adjustedWeights = NoWeights
    /\ finalScore = Undefined
    /\ expertiseScore = Undefined
    /\ authorityScore = Undefined
    /\ curvedExpertise = Undefined
    /\ curvedAuthority = Undefined
    /\ ClassIdle
    /\ GenIdle
    /\ LayoutIdle
    /\ PipelineIdle
    /\ FetcherIdle
    /\ AnalyzerIdle

\* analyzeAuthorityIndex: const weights = getIndustryWeights(industry);
GetIndustryWeights ==
    /\ pc = "weights"
    /\ weights' = getIndustryWeights(industry)
    /\ pc' = "credibility"
    /\ UNCHANGED <<industry, analysisData, credibilityWeights, adjustedWeights,
                   finalScore, classVars, genVars, layoutVars, pipelineVars,
                   fetcherVars, analyzerVars>>

CalculateCredibilityScore ==
    /\ pc = "credibility"
    /\ LET result == calculateCredibilityScore(analysisData, industry)
       IN  /\ credibilityWeights' = result.weights
           /\ adjustedWeights' = result.adjustedWeights
           /\ finalScore' = result.finalScore
    /\ pc' = "weighed"
    /\ UNCHANGED <<industry, analysisData, weights, classVars, genVars,
                   layoutVars, pipelineVars, fetcherVars, analyzerVars>>

NextWeights == GetIndustryWeights \/ CalculateCredibilityScore

SpecWeights == InitWeights /\ [][NextWeights]_vars

WeightSum(w) == w.expertise + w.authority + w.communication

\* C17: the three credibility weights sum to 1 at every call site: every entry
\* of scoreWeightAdjustments and the fallback of getIndustryWeights, every
\* entry of industryWeights before and after the adaptive adjustment of
\* calculateCredibilityScore, and the blend of enhanceCompetitorData.
WeightsSumToOne ==
    /\ pc \in {"credibility", "weighed"} => WeightSum(weights) = WeightScale
    /\ (pc = "weighed" /\ credibilityWeights # NoWeights) =>
           /\ WeightSum(credibilityWeights) = WeightScale
           /\ WeightSum(adjustedWeights) = WeightScale
    /\ WeightSum(enhancementWeights) = WeightScale

\* C17 witness: a call for an industry with its own entry in both tables has
\* raised the expertise weight and lowered the other two.
WeightsSumToOneWitness ==
    /\ pc = "weighed"
    /\ industry = "Construction"
    /\ weights = scoreWeightAdjustments["Construction"]
    /\ credibilityWeights = industryWeights["Construction"]
    /\ adjustedWeights = [expertise |-> 400, authority |-> 275,
                          communication |-> 325]

-----------------------------------------------------------------------------
(* Specification SpecFetch: one call of getWebsiteContent *)

FetchUrls == {"acme.com.au", "https://acme.com.au", "http://acme.com.au"}

\* Pages: an empty document, one with main text only, and one with a title,
\* a meta description and a location as well.
Pages ==
    {[title |-> "", metaDescription |-> "", locationInfo |-> "",
      mainContent |-> ""],
     [title |-> "", metaDescription |-> "", locationInfo |-> "",
      mainContent |-> "We build homes."],
     [title |-> "Acme", metaDescription |-> "Builders", locationInfo |-> "Perth",
      mainContent |-> "We build homes."]}

InitFetch ==
    /\ pc = "fetch"
    /\ industry = ""
    /\ fetchUrl \in FetchUrls
    /\ retries = 0
    /\ fetchLog = <<>>
    /\ waitTimes = <<>>
    /\ fetchResult = NotSettled
    /\ expertiseScore = Undefined
    /\ authorityScore = Undefined
    /\ curvedExpertise = Undefined
    /\ curvedAuthority = Undefined
    /\ ClassIdle
    /\ GenIdle
    /\ LayoutIdle
    /\ PipelineIdle
    /\ EngineIdle
    /\ AnalyzerIdle

\* One pass of while (retries < maxRetries): the try block, and the catch
\* block when fetchClient.get fails
FetchAttempt ==
    /\ pc = "fetch"
    /\ retries < maxRetries
    /\ fetchUrl' = WithProtocol(fetchUrl)
    /\ \/ \E page \in Pages :
             /\ fetchLog' = Append(fetchLog, "page")
             /\ fetchResult' = ResolvedWith(cleanedContent(page))
             /\ UNCHANGED <<retries, waitTimes>>
       \/ \E failure \in FetchFailures :
             LET after == AfterFailure(failure, retries + 1)
             IN  /\ fetchLog' = Append(fetchLog, failure)
                 /\ retries' = retries + 1
                 /\ waitTimes' = IF after.wait > 0
                                   THEN Append(waitTimes, after.wait)
                                   ELSE waitTimes
                 /\ fetchResult' = after.result
    /\ pc' = IF fetchResult' = NotSettled THEN "fetch" ELSE "fetched"
    /\ UNCHANGED <<industry, classVars, genVars, layoutVars, pipelineVars,
                   engineVars, analyzerVars>>

NextFetch == FetchAttempt

SpecFetch == InitFetch /\ [][NextFetch]_vars

\* C18: getWebsiteContent resolves with a string or rejects; it makes at most
\* 3 attempts, and when every attempt failed, whatever the failures were, it
\* rejects with the error.
FetchResolvesStringOrRejects ==
    /\ Len(fetchLog) <= maxRetries
    /\ fetchResult.outcome = "resolved" => fetchResult.kind = "string"
    /\ (Len(fetchLog) = maxRetries
            /\ \A k \in 1..Len(fetchLog) : fetchLog[k] \in FetchFailures)
          => fetchResult.outcome = "rejected"

-----------------------------------------------------------------------------
(* Specification SpecFind: one call of findAndAnalyzeCompetitors *)

\* Subject records: one carrying only its scores, the record the
\* /api/competitors route builds, and one with a location
FindSubjects ==
    {[expertiseScore |-> 60, authorityScore |-> 50, location |-> "",
      domain |-> NoDomain, specialty |-> "", credibilityScore |-> Undefined],
     [expertiseScore |-> 65, authorityScore |-> 70, location |-> "",
      domain |-> "acme_com_au", specialty |-> "", credibilityScore |-> Undefined],
     [expertiseScore |-> 60, authorityScore |-> 50, location |-> "Melbourne, VIC",
      domain |-> NoDomain, specialty |-> "", credibilityScore |-> Undefined]}

\* What the competitor search does: no credentials, a failed request, a
\* response without results, or a response with 1 to 4 domains that pass
\* the filters
FetchResponses ==
    [status : {"unconfigured", "throws", "empty"}, kept : {0}]
    \cup [status : {"items"}, kept : 1..4]

\* The random outcomes of the generator drawn in the pipeline: a weak and a
\* strong profile for each competitor
FindDraws ==
    {d \in Draws : d.expertise = d.authority /\ d.exactLocation}

FindRandomOutcomes(n) == [draws : [1..n -> FindDraws], boss : BossDraws]

\* The collaborator outcomes drawn in the pipeline: each request fails or
\* succeeds in full
FindOutcomes(competitor) ==
    {o \in ReachedOutcomes(competitor) :
        /\ o.places \in {"none", "throws", "found"}
        /\ o.details \in {"throws", "rated"}
        /\ o.content \in {"rejects", "long"}
        /\ o.ai \in {"unconfigured", "scores"}
        /\ o.u = 0}

InitFind ==
    /\ EngineIdle
    /\ FetcherIdle
    /\ AnalyzerIdle
    /\ pc = "find"
    /\ industry = "Construction"
    /\ specialty = ""
    /\ subjectDomain \in {"acme_com_au", "sydneyroofing_com_au"}
    /\ userData \in FindSubjects
    /\ count = 0
    /\ simulatedCompetitors = <<>>
    /\ outcome = ""
    /\ expertiseScore = Undefined
    /\ authorityScore = Undefined
    /\ curvedExpertise = Undefined
    /\ curvedAuthority = Undefined
    /\ ClassIdle
    /\ LayoutIdle
    /\ insights = <<>>
    /\ enhancedCompetitors = <<>>
    /\ settled = <<>>
    /\ findOutcome = ""

\* Step 1: the search query and
\* await contentFetcher.fetchCompetitorsFromDataForSEO(domain, industry, 3, ...)
FetchCompetitors ==
    /\ pc = "find"
    /\ IF extractLocationFromDomain(subjectDomain).threw
         THEN /\ pc' = "fallback"
              /\ UNCHANGED competitorList
         ELSE /\ \E response \in FetchResponses :
                    competitorList' = fetchCompetitorsFromDataForSEO(response, 3)
              /\ pc' = "simulate"
    /\ UNCHANGED <<engineVars, fetcherVars, analyzerVars,
                   industry, classVars, genVars, chartDimensions,
                   positionedCompetitors, searches, pipelineVars>>

\* Step 2: if (competitors.length < 3) competitors.push(...simulated); an
\* exception of generateSimulatedCompetitors enters the catch block
AddSimulated ==
    /\ pc = "simulate"
    /\ IF Len(competitorList) < 3
         THEN \E rnd \in FindRandomOutcomes(3 - Len(competitorList)) :
                LET r == generateSimulatedCompetitors(
                             industry, specialty, userData,
                             3 - Len(competitorList), rnd)
                IN  /\ count' = 3 - Len(competitorList)
                    /\ outcome' = r.outcome
                    /\ simulatedCompetitors' = r.value
                    /\ competitorList' = competitorList \o r.value
                    /\ pc' = IF r.outcome = "threw" THEN "fallback" ELSE "process"
         ELSE /\ pc' = "process"
              /\ UNCHANGED <<count, outcome, simulatedCompetitors, competitorList>>
    /\ UNCHANGED <<engineVars, fetcherVars, analyzerVars,
                   industry, classVars, userData, specialty, chartDimensions,
                   positionedCompetitors, searches, pipelineVars>>

\* Step 3: one pass of the loop of processCompetitors
EnhanceNextFound == EnhanceNextOf(FindOutcomes)

\* Step 4: return calculateCompetitorPositions(enhancedCompetitors)
PositionResult ==
    /\ pc = "processed"
    /\ LET list == [k \in 1..Len(enhancedCompetitors) |->
                       ToLayoutScale(enhancedCompetitors[k])]
       IN  /\ positionedCompetitors' = calculateCompetitorPositions(list, chartDimensions)
           /\ searches' = LayoutSearches(list, chartDimensions)
    /\ findOutcome' = "resolved"
    /\ pc' = "found"
    /\ UNCHANGED <<engineVars, fetcherVars, analyzerVars,
                   industry, classVars, genVars, competitorList, chartDimensions,
                   insights, enhancedCompetitors, settled, subjectDomain>>

\* The catch block: generateSimulatedCompetitors(industry, specialty, userData, 3)
\* and calculateCompetitorPositions; an exception here rejects the promise
Fallback ==
    /\ pc = "fallback"
    /\ \E rnd \in FindRandomOutcomes(3) :
         LET r == generateSimulatedCompetitors(industry, specialty, userData, 3, rnd)
             list == [k \in 1..Len(r.value) |-> ToLayoutScale(r.value[k])]
         IN  /\ count' = 3
             /\ outcome' = r.outcome
             /\ simulatedCompetitors' = r.value
             /\ IF r.outcome = "threw"
                  THEN /\ findOutcome' = "rejected"
                       /\ UNCHANGED <<positionedCompetitors, searches>>
                  ELSE /\ findOutcome' = "resolved"
                       /\ positionedCompetitors' =
                              calculateCompetitorPositions(list, chartDimensions)
                       /\ searches' = LayoutSearches(list, chartDimensions)
    /\ pc' = "found"
    /\ UNCHANGED <<engineVars, fetcherVars, analyzerVars,
                   industry, classVars, userData, specialty, competitorList,
                   chartDimensions, insights, enhancedCompetitors, settled,
                   subjectDomain>>

NextFind ==
    \/ FetchCompetitors
    \/ AddSimulated
    \/ EnhanceNextFound
    \/ ProcessReturn
    \/ PositionResult
    \/ Fallback

SpecFind == InitFind /\ [][NextFind]_vars

\* C10: for every outcome of the collaborators and every subject record,
\* findAndAnalyzeCompetitors resolves, never rejects, with a list of at least
\* 3 entities, each of which has a chartPosition.
FindResolvesWithThree ==
    pc = "found" =>
        /\ findOutcome = "resolved"
        /\ Len(positionedCompetitors) >= 3
        /\ \A k \in 1..Len(positionedCompetitors) :
              positionedCompetitors[k].chartPosition # NoChartPosition

-----------------------------------------------------------------------------
(* The /api/competitors route after findAndAnalyzeCompetitors has resolved:
   generateCompetitiveInsights(userData, competitors, industry) on the list
   that calculateCompetitorPositions returned *)

\* The composite score of a positioned entity, whose authorityScore is held
\* in thousandths: TotalScore times ScoreScale
PositionedTotalScore(c) ==
    ScoreScale * (OrDefault(c.googleData.userRatingsTotal, 0)
                      * OrDefault(c.googleData.rating, 300)
                  + 5 * OrDefault(c.seoData.traffic, 0)
                  + 10 * OrDefault(c.seoData.keywords, 0)
                  + 25 * OrDefault(c.seoData.backlinks, 0)
                  + 10 * OrDefault(c.seoData.socialFollowers, 0))
    + 500 * OrDefault(c.authorityScore, 50 * ScoreScale)

\* sortedCompetitors[0] as an index into the list: the first entity no other
\* entity outscores (the sort is stable)
TopCompetitor(list) ==
    CHOOSE k \in 1..Len(list) :
        \A j \in 1..Len(list) :
            /\ PositionedTotalScore(list[k]) >= PositionedTotalScore(list[j])
            /\ PositionedTotalScore(list[k]) = PositionedTotalScore(list[j]) => k <= j

\* The indexes of the entities with isBoss = true once the route has called
\* generateCompetitiveInsights: topCompetitor.isBoss = true is the only
\* assignment to the flag, and no flag is cleared
BossesAfterInsights(list) ==
    {k \in 1..Len(list) : list[k].isBoss} \cup {TopCompetitor(list)}

\* C26: once findAndAnalyzeCompetitors has resolved and the route has called
\* generateCompetitiveInsights on the list, exactly one entity of the list
\* has isBoss = true, and it is the entity ranked top by the composite score.
OneBossAfterInsights ==
    (pc = "found" /\ findOutcome = "resolved") =>
        BossesAfterInsights(positionedCompetitors)
            = {TopCompetitor(positionedCompetitors)}

-----------------------------------------------------------------------------
(* Specification SpecAnalyze: one call of analyzeContent *)

\* contentSample.length: an empty sample, the lengths either side of the
\* test `< 100`, and the longest sample substring(0, 8000) leaves
ContentSamples == {0, 99, 100, 8000}

\* What axios.post can be answered with: a rejection with HTTP status 429,
\* another rejection (another status, or no response at all), a response
\* without choices, one whose message is not the JSON asked for, and one
\* whose message parses to an analysis
AiFailures == {"429", "500", "network"}

AiResponses ==
    {[kind |-> k, parsed |-> NoAnalysis] : k \in {"noChoices", "unparsable"}}
    \cup {[kind |-> "analysis", parsed |-> a] :
              a \in [expertiseScore : AnalysisScores,
                     authorityScore : AnalysisScores,
                     communicationScore : AnalysisScores]}

InitAnalyze ==
    /\ pc = "analyze"
    /\ industry \in {"Healthcare", ""}
    /\ OPENAI_API_KEY \in {"", "sk-configured"}
    /\ contentSample \in ContentSamples
    /\ aiRetries = 0
    /\ aiRequests = <<>>
    /\ aiWaits = <<>>
    /\ aiResult = AnalysisPending
    /\ expertiseScore = Undefined
    /\ authorityScore = Undefined
    /\ curvedExpertise = Undefined
    /\ curvedAuthority = Undefined
    /\ ClassIdle
    /\ GenIdle
    /\ LayoutIdle
    /\ PipelineIdle
    /\ EngineIdle
    /\ FetcherIdle

\* One pass of while (retries < maxRetries): the try block and the catch
\* block, and `return null` after the loop when the pass was the last.
\* getComplianceGuidelines and getIndustrySpecificInstructions are called
\* while the prompt is built and are defined nowhere in the module: where
\* they are not in scope the call throws inside the try block, before any
\* request, and the catch block returns null.
AnalyzeAttempt ==
    /\ pc = "analyze"
    /\ aiRetries < maxRetries
    /\ IF OPENAI_API_KEY = "" \/ contentSample < 100
         THEN /\ aiResult' = ResolvedNull
              /\ UNCHANGED <<aiRetries, aiRequests, aiWaits>>
         ELSE \/ /\ aiResult' = AfterAiFailure("ReferenceError", aiRetries).result
                 /\ UNCHANGED <<aiRetries, aiRequests, aiWaits>>
              \/ \E response \in AiResponses :
                    /\ aiRequests' = Append(aiRequests, response.kind)
                    /\ aiResult' = AfterAiResponse(response)
                    /\ UNCHANGED <<aiRetries, aiWaits>>
              \/ \E failure \in AiFailures :
                    LET after == AfterAiFailure(failure, aiRetries)
                    IN  /\ aiRequests' = Append(aiRequests, failure)
                        /\ aiRetries' = after.retries
                        /\ aiWaits' = IF after.wait > 0
                                        THEN Append(aiWaits, after.wait)
                                        ELSE aiWaits
                        /\ aiResult' = IF after.result = AnalysisPending
                                            /\ after.retries >= maxRetries
                                         THEN ResolvedNull
                                         ELSE after.result
    /\ pc' = IF aiResult' = AnalysisPending THEN "analyze" ELSE "analyzed"
    /\ UNCHANGED <<industry, OPENAI_API_KEY, contentSample, classVars, genVars,
                   layoutVars, pipelineVars, engineVars, fetcherVars>>

NextAnalyze == AnalyzeAttempt

SpecAnalyze == InitAnalyze /\ [][NextAnalyze]_vars

\* Every request is answered and the continuation of an awaited promise is
\* run: the loop takes its next pass
SpecAnalyzeFair == SpecAnalyze /\ WF_vars(NextAnalyze)

\* C30: whatever the responses, analyzeContent issues at most 3 requests,
\* issues a request after another only when that one was answered with HTTP
\* 429, never rejects, and in the end resolves, with the analysis object or
\* with null.
AnalyzeSettlesWithinThree ==
    /\ [](/\ Len(aiRequests) <= maxRetries
          /\ \A k \in 1..(Len(aiRequests) - 1) : aiRequests[k] = "429"
          /\ aiResult.outcome \in {"", "resolved"}
          /\ aiResult.outcome = "resolved" => aiResult.kind \in {"analysis", "null"})
    /\ <>(aiResult.outcome = "resolved")

\* C30 witness: a call whose first two requests were answered with 429 and
\* whose third returned an analysis, after waits of 3 and 6 seconds
AnalyzeSettlesWithinThreeWitness ==
    /\ pc = "analyzed"
    /\ aiRequests = <<"429", "429", "analysis">>
    /\ aiWaits = <<3000, 6000>>
    /\ aiResult.kind = "analysis"
    /\ aiResult.value.credibilityScore # Undefined

=============================================================================
